---------------------------- MODULE Spec2Model ----------------------------
(***************************************************************************)
(* A model of the SieGe Gatekeeper diff-to-finding pipeline:               *)
(*   app/diff_parser.py       parse_patch, detect_language,                *)
(*                            build_file_diffs                             *)
(*   app/analyzers/*.py       lint_findings, python_security_findings,     *)
(*                            complexity_findings, run_all_analyzers       *)
(*   app/review_formatter.py  build_review_payload, _build_inline_comments *)
(*                                                                         *)
(* Python str values are sequences of one-character strings, so that       *)
(* startswith, strip, slicing and comparison are computed and not assumed. *)
(***************************************************************************)
EXTENDS Integers, Sequences, FiniteSets, TLC

(***************************************************************************)
(* Bounds of the model.                                                    *)
(***************************************************************************)
\* Largest number of lines of the structured diff a patch text is rendered from.
MaxPatchLines == 4

\* Largest number of changed-file descriptors in a payload.
MaxFiles == 2

\* The longest list of findings build_review_payload is given.
MaxFindings == 45

(***************************************************************************)
(* Python str operations used by the code.                                 *)
(***************************************************************************)
Digits == <<"0", "1", "2", "3", "4", "5", "6", "7", "8", "9">>

IsDigit(c) == \E d \in 1..10 : Digits[d] = c

DigitValue(c) == (CHOOSE d \in 1..10 : Digits[d] = c) - 1

\* s.startswith(prefix)
startswith(s, prefix) ==
    /\ Len(s) >= Len(prefix)
    /\ SubSeq(s, 1, Len(prefix)) = prefix

\* s[i:] for a 0-based start i
SliceFrom(s, i) == SubSeq(s, i + 1, Len(s))

\* re.match of a literal at 1-based position i
LitAt(s, i, lit) ==
    /\ i + Len(lit) - 1 <= Len(s)
    /\ SubSeq(s, i, i + Len(lit) - 1) = lit

\* the position after the longest run of digits that starts at position i (\d+ is greedy)
RECURSIVE DigitsEnd(_, _)
DigitsEnd(s, i) ==
    IF i <= Len(s) /\ IsDigit(s[i]) THEN DigitsEnd(s, i + 1) ELSE i

\* int(text) of a run of decimal digits
RECURSIVE int(_)
int(ds) ==
    IF ds = <<>> THEN 0
    ELSE 10 * int(SubSeq(ds, 1, Len(ds) - 1)) + DigitValue(ds[Len(ds)])

\* str(n) for n >= 0
RECURSIVE ToDigits(_)
ToDigits(n) ==
    IF n < 10 THEN <<Digits[n + 1]>>
    ELSE ToDigits(n \div 10) \o <<Digits[(n % 10) + 1]>>

\* The characters at which str.splitlines breaks a line (those of the model's alphabet).
LineBreaks == {"\n", "\r", "\f"}

\* The position of the first line boundary at or after position i, Len(s) + 1
\* when there is none.
NextBreak(s, i) ==
    IF \E j \in i..Len(s) : s[j] \in LineBreaks
    THEN CHOOSE j \in i..Len(s) :
            /\ s[j] \in LineBreaks
            /\ \A k \in i..(j - 1) : s[k] \notin LineBreaks
    ELSE Len(s) + 1

\* str.splitlines(): break at every line boundary, "\r\n" being one boundary; the
\* boundaries are dropped and a trailing boundary opens no further line.
RECURSIVE SplitFrom(_, _)
SplitFrom(s, i) ==
    IF i > Len(s) THEN <<>>
    ELSE LET b == NextBreak(s, i)
             next == IF b < Len(s) /\ s[b] = "\r" /\ s[b + 1] = "\n"
                     THEN b + 2 ELSE b + 1
         IN  <<SubSeq(s, i, b - 1)>> \o SplitFrom(s, next)

splitlines(s) == SplitFrom(s, 1)


\* The grave accent, a character that a string literal of this module cannot hold.
Grave == "(grave)"

\* The printable ASCII characters in code-point order, from " " (32) to "~" (126).
\* Grave stands for the grave accent (96).
Printable ==
    <<" ", "!", "\"", "#", "$", "%", "&", "'", "(", ")", "*", "+", ",", "-", ".", "/",
      "0", "1", "2", "3", "4", "5", "6", "7", "8", "9", ":", ";", "<", "=", ">", "?", "@", "A", "B", "C", "D", "E", "F", "G", "H", "I", "J", "K", "L", "M", "N", "O",
      "P", "Q", "R", "S", "T", "U", "V", "W", "X", "Y", "Z", "[", "\\", "]", "^", "_", Grave, "a", "b", "c", "d", "e", "f", "g", "h", "i", "j", "k", "l", "m", "n", "o",
      "p", "q", "r", "s", "t", "u", "v", "w", "x", "y", "z", "{", "|", "}", "~">>

\* The characters of the model's alphabet.
Alphabet == {Printable[k] : k \in 1..Len(Printable)} \cup {"\t", "\n", "\f", "\r"}

\* ord(c), as a table over the alphabet
CodePoints ==
    [c \in Alphabet |->
        CASE c = "\t" -> 9
          [] c = "\n" -> 10
          [] c = "\f" -> 12
          [] c = "\r" -> 13
          [] OTHER -> 31 + (CHOOSE k \in 1..Len(Printable) : Printable[k] = c)]

Ord(c) == CodePoints[c]

\* c.lower() for one ASCII character, as a table over the alphabet
LowerChars ==
    [c \in Alphabet |->
        IF CodePoints[c] >= 65 /\ CodePoints[c] <= 90
        THEN Printable[CodePoints[c] + 32 - 31] ELSE c]

LowerChar(c) == LowerChars[c]

\* s.lower()
lower(s) == [k \in 1..Len(s) |-> LowerChar(s[k])]

\* The characters str.strip() removes (those of the model's alphabet).
Whitespace == {" ", "\t", "\n", "\r", "\f"}

\* s.lstrip(chars): the 1-based index of the first character not in chars
RECURSIVE FirstNotIn(_, _, _)
FirstNotIn(s, i, chars) ==
    IF i <= Len(s) /\ s[i] \in chars THEN FirstNotIn(s, i + 1, chars) ELSE i

\* s.rstrip(chars): the 1-based index of the last character not in chars
RECURSIVE LastNotIn(_, _, _)
LastNotIn(s, i, chars) ==
    IF i >= 1 /\ s[i] \in chars THEN LastNotIn(s, i - 1, chars) ELSE i

lstrip(s, chars) == SubSeq(s, FirstNotIn(s, 1, chars), Len(s))

rstrip(s, chars) == SubSeq(s, 1, LastNotIn(s, Len(s), chars))

\* s.strip()
strip(s) == rstrip(lstrip(s, Whitespace), Whitespace)

\* s[:n]
Truncate(s, n) == IF Len(s) <= n THEN s ELSE SubSeq(s, 1, n)

\* sub in s
Contains(s, sub) == \E i \in 1..(Len(s) - Len(sub) + 1) : LitAt(s, i, sub)

\* s.count(sub): the occurrences that do not overlap, from the left
RECURSIVE CountFrom(_, _, _)
CountFrom(s, i, sub) ==
    IF i + Len(sub) - 1 > Len(s) THEN 0
    ELSE IF LitAt(s, i, sub) THEN 1 + CountFrom(s, i + Len(sub), sub)
    ELSE CountFrom(s, i + 1, sub)

count(s, sub) == CountFrom(s, 1, sub)

\* s.rfind(c) as a 1-based index, 0 when c is not in s
RECURSIVE RFind(_, _, _)
RFind(s, i, c) ==
    IF i = 0 THEN 0 ELSE IF s[i] = c THEN i ELSE RFind(s, i - 1, c)

\* a < b for two str values: by code point, a proper prefix first
RECURSIVE StrLessFrom(_, _, _)
StrLessFrom(a, b, i) ==
    IF i > Len(b) THEN FALSE
    ELSE IF i > Len(a) THEN TRUE
    ELSE IF a[i] = b[i] THEN StrLessFrom(a, b, i + 1)
    ELSE Ord(a[i]) < Ord(b[i])

StrLess(a, b) == StrLessFrom(a, b, 1)

(***************************************************************************)
(* The regular-expression atoms the analyzers' patterns are made of.       *)
(***************************************************************************)
\* \w
WordChars ==
    {c \in Alphabet :
        \/ CodePoints[c] >= 48 /\ CodePoints[c] <= 57
        \/ CodePoints[c] >= 65 /\ CodePoints[c] <= 90
        \/ CodePoints[c] >= 97 /\ CodePoints[c] <= 122
        \/ c = "_"}

IsWordChar(c) == c \in WordChars

WordAt(s, k) == k >= 1 /\ k <= Len(s) /\ IsWordChar(s[k])

\* \b just before position i
Boundary(s, i) == WordAt(s, i - 1) # WordAt(s, i)

\* the position after \s* at position i
SkipSpaces(s, i) == FirstNotIn(s, i, Whitespace)

\* the position after the longest run of \w at position i
RECURSIVE WordEnd(_, _)
WordEnd(s, i) == IF WordAt(s, i) THEN WordEnd(s, i + 1) ELSE i

(***************************************************************************)
(* app/diff_parser.py: parse_patch                                         *)
(***************************************************************************)
ChangedLine(number, content) == [number |-> number, content |-> content]

\* HUNK_HEADER_RE = ^@@ -\d+(?:,\d+)? \+(\d+)(?:,\d+)? @@ , matched at the start of
\* the line.  After(i) is the position after an optional ",\d+" group at i.  The
\* result is <<matched, group 1>>.
OptCount(s, i) ==
    IF LitAt(s, i, <<",">>) /\ DigitsEnd(s, i + 1) > i + 1
    THEN DigitsEnd(s, i + 1) ELSE i

HUNK_HEADER_RE(s) ==
    LET oldEnd   == DigitsEnd(s, 5)
        oldCount == OptCount(s, oldEnd)
        newBegin == oldCount + 2
        newEnd   == DigitsEnd(s, newBegin)
        newCount == OptCount(s, newEnd)
        ok == /\ LitAt(s, 1, <<"@", "@", " ", "-">>)
              /\ oldEnd > 5
              /\ LitAt(s, oldCount, <<" ", "+">>)
              /\ newEnd > newBegin
              /\ LitAt(s, newCount, <<" ", "@", "@">>)
    IN  [matched |-> ok,
         group1  |-> IF ok THEN SubSeq(s, newBegin, newEnd - 1) ELSE <<>>]

\* The branch of the loop body a raw line takes (the if-chain of lines 58-78).
IsHunkLine(raw_line) == startswith(raw_line, <<"@", "@">>)

IsAddedLine(raw_line) ==
    /\ ~IsHunkLine(raw_line)
    /\ startswith(raw_line, <<"+">>)
    /\ ~startswith(raw_line, <<"+", "+", "+">>)

IsDeletedLine(raw_line) ==
    /\ ~IsHunkLine(raw_line)
    /\ ~IsAddedLine(raw_line)
    /\ startswith(raw_line, <<"-">>)
    /\ ~startswith(raw_line, <<"-", "-", "-">>)

IsMarkerLine(raw_line) ==
    /\ ~IsHunkLine(raw_line)
    /\ ~IsAddedLine(raw_line)
    /\ ~IsDeletedLine(raw_line)
    /\ startswith(raw_line, <<"\\">>)

IsOtherLine(raw_line) ==
    /\ ~IsHunkLine(raw_line)
    /\ ~IsAddedLine(raw_line)
    /\ ~IsDeletedLine(raw_line)
    /\ ~IsMarkerLine(raw_line)

\* new_line_number = 0 before the loop
InitialLineNumber == 0

\* The cursor after each branch.
NewStartOr(n, match) == IF match.matched THEN int(match.group1) ELSE n

AfterHunk(n, raw_line) == NewStartOr(n, HUNK_HEADER_RE(raw_line))

\* AfterAdded with the increment of line 69 left out.
AfterAddedNoAdvance(n) == n

AfterAdded(n) == n + 1

\* AfterDeleted as if a deletion stepped the cursor back.
AfterDeletedRewinds(n) == n - 1

AfterDeleted(n) == n

AfterMarker(n) == n

AfterOther(n) == n + 1

\* One iteration of the loop: the cursor and the list after raw_line.
ParseLine(n, out, raw_line) ==
    IF IsHunkLine(raw_line) THEN <<AfterHunk(n, raw_line), out>>
    ELSE IF IsAddedLine(raw_line)
         THEN <<AfterAdded(n), Append(out, ChangedLine(n, SliceFrom(raw_line, 1)))>>
    ELSE IF IsDeletedLine(raw_line) THEN <<AfterDeleted(n), out>>
    ELSE IF IsMarkerLine(raw_line) THEN <<AfterMarker(n), out>>
    ELSE <<AfterOther(n), out>>

RECURSIVE ParseFrom(_, _, _, _)
ParseFrom(raw, i, n, out) ==
    IF i > Len(raw) THEN out
    ELSE LET r == ParseLine(n, out, raw[i])
         IN  ParseFrom(raw, i + 1, r[1], r[2])

parse_patch(text) == ParseFrom(splitlines(text), 1, InitialLineNumber, <<>>)

(***************************************************************************)
(* app/diff_parser.py: detect_language, build_file_diffs                   *)
(***************************************************************************)
\* The pairs of the dict LANGUAGE_BY_EXTENSION.
LANGUAGE_BY_EXTENSION ==
    { <<<<".", "c">>, "c">>,
      <<<<".", "c", "c">>, "cpp">>,
      <<<<".", "c", "p", "p">>, "cpp">>,
      <<<<".", "c", "s">>, "csharp">>,
      <<<<".", "g", "o">>, "go">>,
      <<<<".", "j", "a", "v", "a">>, "java">>,
      <<<<".", "j", "s">>, "javascript">>,
      <<<<".", "j", "s", "x">>, "javascript">>,
      <<<<".", "k", "t">>, "kotlin">>,
      <<<<".", "p", "h", "p">>, "php">>,
      <<<<".", "p", "y">>, "python">>,
      <<<<".", "r", "b">>, "ruby">>,
      <<<<".", "r", "s">>, "rust">>,
      <<<<".", "s", "c", "a", "l", "a">>, "scala">>,
      <<<<".", "s", "h">>, "shell">>,
      <<<<".", "s", "q", "l">>, "sql">>,
      <<<<".", "s", "w", "i", "f", "t">>, "swift">>,
      <<<<".", "t", "s">>, "typescript">>,
      <<<<".", "t", "s", "x">>, "typescript">> }

\* os.path.splitext(p)[1]: from the last dot of the last path component, unless
\* only dots come before it in that component
splitext(p) ==
    LET sep == RFind(p, Len(p), "/")
        dot == RFind(p, Len(p), ".")
    IN  IF dot > sep /\ \E k \in (sep + 1)..(dot - 1) : p[k] # "."
        THEN SubSeq(p, dot, Len(p))
        ELSE <<>>

detect_language(file_path) ==
    LET extension == splitext(lower(file_path)) IN
    IF \E e \in LANGUAGE_BY_EXTENSION : e[1] = extension
    THEN (CHOOSE e \in LANGUAGE_BY_EXTENSION : e[1] = extension)[2]
    ELSE "text"

FileDiff(path, language, additions, deletions, lines) ==
    [path |-> path, language |-> language, additions |-> additions,
     deletions |-> deletions, changed_lines |-> lines]

\* A changed-file descriptor of the payload: has_patch is FALSE when the "patch"
\* key is missing or None.
ChangedFile(filename, has_patch, text, additions, deletions) ==
    [filename |-> filename, has_patch |-> has_patch, patch |-> text,
     additions |-> additions, deletions |-> deletions]

\* FileDiffWith with the check of lines 96-97 left out.
FileDiffWithAnyLines(changed_file, path, lines) ==
    <<FileDiff(path, detect_language(path), changed_file.additions,
               changed_file.deletions, lines)>>

\* The loop body of build_file_diffs from line 95 on, lines being
\* parse_patch(str(patch)).
FileDiffWith(changed_file, path, lines) ==
    IF lines = <<>> THEN <<>>
    ELSE <<FileDiff(path, detect_language(path), changed_file.additions,
                    changed_file.deletions, lines)>>

\* The loop body of build_file_diffs: the FileDiffs one descriptor appends.
FileDiffOf(changed_file) ==
    IF strip(changed_file.filename) = <<>> THEN <<>>
    ELSE IF ~changed_file.has_patch \/ changed_file.patch = <<>> THEN <<>>
    ELSE FileDiffWith(changed_file, strip(changed_file.filename),
                      parse_patch(changed_file.patch))

RECURSIVE BuildFrom(_, _)
BuildFrom(payload, i) ==
    IF i > Len(payload) THEN <<>>
    ELSE FileDiffOf(payload[i]) \o BuildFrom(payload, i + 1)

build_file_diffs(payload) == BuildFrom(payload, 1)

(***************************************************************************)
(* app/analyzers/__init__.py: Finding.  A message is the sequence of the   *)
(* pieces of its text.                                                     *)
(***************************************************************************)
Finding(path, line, severity, rule_id, message, snippet) ==
    [path |-> path, line |-> line, severity |-> severity, rule_id |-> rule_id,
     message |-> message, snippet |-> snippet]

\* The findings list after the appends of each iteration of a loop, given what
\* each iteration appends.
RECURSIVE AppendedFrom(_, _)
AppendedFrom(appended, i) ==
    IF i > Len(appended) THEN <<>>
    ELSE appended[i] \o AppendedFrom(appended, i + 1)

AppendedIn(appended) == AppendedFrom(appended, 1)

\* (stripped or "<empty line>")[:160]
Snippet(stripped) ==
    Truncate(IF stripped = <<>> THEN <<"<", "e", "m", "p", "t", "y", " ", "l", "i", "n", "e", ">">> ELSE stripped, 160)

\* os.getenv(name, default): Unset is the value of a variable that is not set
Unset == <<"(unset)">>

getenv(value, default) == IF value = Unset THEN default ELSE value

(***************************************************************************)
(* app/analyzers/lint.py                                                   *)
(***************************************************************************)
\* The value of the environment variable MAX_LINE_LENGTH in the modelled run.
ENV_MAX_LINE_LENGTH == <<"2", "0">>

MAX_LINE_LENGTH == int(getenv(ENV_MAX_LINE_LENGTH, <<"1", "2", "0">>))

\* A word of the pattern at position i of text, whose lower case is lowered.
TodoAt(text, lowered, i) ==
    \E word \in {<<"t", "o", "d", "o">>, <<"f", "i", "x", "m", "e">>, <<"x", "x", "x">>} :
       /\ LitAt(lowered, i, word)
       /\ Boundary(text, i)
       /\ Boundary(text, i + Len(word))

TodoIn(text, lowered) == \E i \in 1..Len(text) : TodoAt(text, lowered, i)

\* TODO_RE = \b(TODO|FIXME|XXX)\b, re.IGNORECASE
TODO_RE(text) == TodoIn(text, lower(text))

LintLine(file_diff, changed_line) ==
    LET text == changed_line.content
        stripped == strip(text)
        snippet == Snippet(stripped)
        indentation == SubSeq(text, 1, Len(text) - Len(lstrip(text, {" ", "\t"})))
    IN  (IF rstrip(text, {" ", "\t"}) # text
         THEN <<Finding(file_diff.path, changed_line.number, "low",
                   <<"T", "R", "A", "I", "L", "I", "N", "G", "_", "W", "H", "I", "T", "E", "S", "P", "A", "C", "E">>,
                   <<"Line has trailing whitespace.">>, snippet)>>
         ELSE <<>>)
     \o (IF Len(text) > MAX_LINE_LENGTH
         THEN <<Finding(file_diff.path, changed_line.number, "low",
                   <<"L", "I", "N", "E", "_", "T", "O", "O", "_", "L", "O", "N", "G">>,
                   <<"Line length is ">> \o ToDigits(Len(text))
                     \o <<" characters (limit: ">> \o ToDigits(MAX_LINE_LENGTH) \o <<").">>, snippet)>>
         ELSE <<>>)
     \o (IF TODO_RE(text)
         THEN <<Finding(file_diff.path, changed_line.number, "low",
                   <<"T", "O", "D", "O", "_", "C", "O", "M", "M", "E", "N", "T">>,
                   <<"TODO/FIXME marker found in changed line.">>, snippet)>>
         ELSE <<>>)
     \o (IF file_diff.language = "python" /\ startswith(stripped, <<"p", "r", "i", "n", "t", "(">>)
         THEN <<Finding(file_diff.path, changed_line.number, "low",
                   <<"P", "Y", "_", "D", "E", "B", "U", "G", "_", "P", "R", "I", "N", "T">>,
                   <<"Debug print statement found in changed line.">>, snippet)>>
         ELSE <<>>)
     \o (IF file_diff.language = "python" /\ Contains(indentation, <<"\t">>)
         THEN <<Finding(file_diff.path, changed_line.number, "medium",
                   <<"P", "Y", "_", "T", "A", "B", "_", "I", "N", "D", "E", "N", "T">>,
                   <<"Tab character used for indentation in Python code.">>, snippet)>>
         ELSE <<>>)
     \o (IF /\ file_diff.language \in {"javascript", "typescript"}
            /\ Contains(stripped, <<"c", "o", "n", "s", "o", "l", "e", ".", "l", "o", "g", "(">>)
         THEN <<Finding(file_diff.path, changed_line.number, "low",
                   <<"J", "S", "_", "D", "E", "B", "U", "G", "_", "L", "O", "G">>,
                   <<"Debug console.log statement found in changed line.">>, snippet)>>
         ELSE <<>>)

\* LintFile with the index of a changed line for its number.
LintFileByIndex(file_diff) ==
    AppendedIn([i \in 1..Len(file_diff.changed_lines) |->
                   LintLine(file_diff,
                            ChangedLine(i, file_diff.changed_lines[i].content))])

LintFile(file_diff) ==
    AppendedIn([i \in 1..Len(file_diff.changed_lines) |->
                   LintLine(file_diff, file_diff.changed_lines[i])])

lint_findings(file_diffs) ==
    AppendedIn([i \in 1..Len(file_diffs) |-> LintFile(file_diffs[i])])

(***************************************************************************)
(* app/analyzers/python_ast.py                                             *)
(***************************************************************************)
\* \b<name>\s*\(
CallOf(text, name) ==
    \E i \in 1..Len(text) :
       /\ Boundary(text, i)
       /\ LitAt(text, i, name)
       /\ LitAt(text, SkipSpaces(text, i + Len(name)), <<"(">>)

\* EVAL_RE = \beval\s*\(
EVAL_RE(text) == CallOf(text, <<"e", "v", "a", "l">>)

\* EXEC_RE = \bexec\s*\(
EXEC_RE(text) == CallOf(text, <<"e", "x", "e", "c">>)

\* shell\s*=\s*True at position j
ShellTrueAt(text, j) ==
    LET eq == SkipSpaces(text, j + 5) IN
    /\ LitAt(text, j, <<"s", "h", "e", "l", "l">>)
    /\ LitAt(text, eq, <<"=">>)
    /\ LitAt(text, SkipSpaces(text, eq + 1), <<"T", "r", "u", "e">>)

\* SUBPROCESS_SHELL_RE = \bsubprocess\.\w+\(.*shell\s*=\s*True
SUBPROCESS_SHELL_RE(text) ==
    \E i \in 1..Len(text) :
       LET name == i + 11
           paren == WordEnd(text, name)
       IN  /\ Boundary(text, i)
           /\ LitAt(text, i, <<"s", "u", "b", "p", "r", "o", "c", "e", "s", "s", ".">>)
           /\ paren > name
           /\ LitAt(text, paren, <<"(">>)
           /\ \E j \in (paren + 1)..Len(text) : ShellTrueAt(text, j)

\* PICKLE_LOAD_RE = \bpickle\.loads?\(
PICKLE_LOAD_RE(text) ==
    \E i \in 1..Len(text) :
       /\ Boundary(text, i)
       /\ \/ LitAt(text, i, <<"p", "i", "c", "k", "l", "e", ".", "l", "o", "a", "d", "s", "(">>)
          \/ LitAt(text, i, <<"p", "i", "c", "k", "l", "e", ".", "l", "o", "a", "d", "(">>)

\* YAML_LOAD_RE = \byaml\.load\s*\(
YAML_LOAD_RE(text) == CallOf(text, <<"y", "a", "m", "l", ".", "l", "o", "a", "d">>)

SecurityLine(file_diff, changed_line) ==
    LET text == changed_line.content
        snippet == Snippet(strip(text))
    IN  (IF EVAL_RE(text)
         THEN <<Finding(file_diff.path, changed_line.number, "high",
                   <<"P", "Y", "_", "E", "V", "A", "L", "_", "U", "S", "A", "G", "E">>,
                   <<"Avoid ", Grave, "eval()", Grave, " on changed lines; use safer parsing.">>, snippet)>>
         ELSE <<>>)
     \o (IF EXEC_RE(text)
         THEN <<Finding(file_diff.path, changed_line.number, "high",
                   <<"P", "Y", "_", "E", "X", "E", "C", "_", "U", "S", "A", "G", "E">>,
                   <<"Avoid ", Grave, "exec()", Grave, " on changed lines.">>, snippet)>>
         ELSE <<>>)
     \o (IF SUBPROCESS_SHELL_RE(text)
         THEN <<Finding(file_diff.path, changed_line.number, "high",
                   <<"P", "Y", "_", "S", "U", "B", "P", "R", "O", "C", "E", "S", "S", "_", "S", "H", "E", "L", "L", "_", "T", "R", "U", "E">>,
                   <<"subprocess with shell=True on changed line may enable command injection.">>, snippet)>>
         ELSE <<>>)
     \o (IF PICKLE_LOAD_RE(text)
         THEN <<Finding(file_diff.path, changed_line.number, "medium",
                   <<"P", "Y", "_", "P", "I", "C", "K", "L", "E", "_", "L", "O", "A", "D">>,
                   <<"pickle.loads/load can execute arbitrary code on untrusted input.">>, snippet)>>
         ELSE <<>>)
     \o (IF YAML_LOAD_RE(text) /\ ~Contains(text, <<"s", "a", "f", "e", "_", "l", "o", "a", "d">>)
         THEN <<Finding(file_diff.path, changed_line.number, "medium",
                   <<"P", "Y", "_", "Y", "A", "M", "L", "_", "L", "O", "A", "D">>,
                   <<"Use yaml.safe_load instead of yaml.load.">>, snippet)>>
         ELSE <<>>)

SecurityFile(file_diff) ==
    IF file_diff.language # "python" THEN <<>>
    ELSE AppendedIn([i \in 1..Len(file_diff.changed_lines) |->
                        SecurityLine(file_diff, file_diff.changed_lines[i])])

python_security_findings(file_diffs) ==
    AppendedIn([i \in 1..Len(file_diffs) |-> SecurityFile(file_diffs[i])])

(***************************************************************************)
(* app/analyzers/complexity.py                                             *)
(***************************************************************************)
\* The first position at or after i that holds c, 0 when there is none.
RECURSIVE IndexFrom(_, _, _)
IndexFrom(s, i, c) ==
    IF i > Len(s) THEN 0
    ELSE IF s[i] = c THEN i ELSE IndexFrom(s, i + 1, c)

\* The first position after i that holds c, 0 when i is 0 or there is none.
Then(s, i, c) == IF i = 0 THEN 0 ELSE IndexFrom(s, i + 1, c)

\* MULTI_TERNARY_RE = \?.*:.*\?.*: : a "?", a ":", a "?" and a ":" in this order,
\* which there are exactly when taking the first of each finds them
MULTI_TERNARY_RE(text) ==
    Then(text, Then(text, Then(text, IndexFrom(text, 1, "?"), ":"), "?"), ":") # 0

ControlFlowPrefixes == {<<"i", "f", " ">>, <<"f", "o", "r", " ">>, <<"w", "h", "i", "l", "e", " ">>, <<"t", "r", "y", ":">>, <<"w", "i", "t", "h", " ">>}

ComplexityLine(file_diff, changed_line) ==
    LET text == changed_line.content
        stripped == strip(text)
        snippet == Truncate(stripped, 160)
        logical_density == count(stripped, <<" ", "a", "n", "d", " ">>) + count(stripped, <<" ", "o", "r", " ">>)
        indentation_level == Len(text) - Len(lstrip(text, {" "}))
    IN  IF stripped = <<>> THEN <<>>
        ELSE
        (IF logical_density >= 3
         THEN <<Finding(file_diff.path, changed_line.number, "medium",
                   <<"C", "O", "M", "P", "L", "E", "X", "_", "B", "O", "O", "L", "E", "A", "N", "_", "E", "X", "P", "R", "E", "S", "S", "I", "O", "N">>,
                   <<"Changed line has a dense boolean expression; consider extracting named sub-expressions.">>, snippet)>>
         ELSE <<>>)
     \o (IF /\ indentation_level >= 16
            /\ \E prefix \in ControlFlowPrefixes : startswith(stripped, prefix)
         THEN <<Finding(file_diff.path, changed_line.number, "low",
                   <<"D", "E", "E", "P", "_", "N", "E", "S", "T", "I", "N", "G">>,
                   <<"Changed control-flow line appears deeply nested; consider refactoring.">>, snippet)>>
         ELSE <<>>)
     \o (IF /\ file_diff.language \in {"javascript", "typescript"}
            /\ MULTI_TERNARY_RE(stripped)
         THEN <<Finding(file_diff.path, changed_line.number, "medium",
                   <<"N", "E", "S", "T", "E", "D", "_", "T", "E", "R", "N", "A", "R", "Y">>,
                   <<"Nested ternary detected on changed line; consider clearer control flow.">>, snippet)>>
         ELSE <<>>)

ComplexityFile(file_diff) ==
    AppendedIn([i \in 1..Len(file_diff.changed_lines) |->
                   ComplexityLine(file_diff, file_diff.changed_lines[i])])

complexity_findings(file_diffs) ==
    AppendedIn([i \in 1..Len(file_diffs) |-> ComplexityFile(file_diffs[i])])

(***************************************************************************)
(* app/analyzers/__init__.py: run_all_analyzers                            *)
(***************************************************************************)
\* A rank that follows the order of the severity names.
SeverityRankByName(severity) ==
    CASE severity = "high" -> 0
      [] severity = "low" -> 1
      [] severity = "medium" -> 2
      [] OTHER -> 99

\* SEVERITY_RANK.get(severity, 99)
SEVERITY_RANK(severity) ==
    CASE severity = "high" -> 0
      [] severity = "medium" -> 1
      [] severity = "low" -> 2
      [] OTHER -> 99

\* a < b for the sort keys (rank, path, line, rule_id) of two findings, as
\* Python compares tuples
KeyLess(a, b) ==
    LET ra == SEVERITY_RANK(a.severity)
        rb == SEVERITY_RANK(b.severity)
    IN  \/ ra < rb
        \/ /\ ra = rb
           /\ \/ StrLess(a.path, b.path)
              \/ /\ a.path = b.path
                 /\ \/ a.line < b.line
                    \/ a.line = b.line /\ StrLess(a.rule_id, b.rule_id)

\* InsertSorted keeping one element per sort key.
InsertSortedUnique(out, f) ==
    LET p == Cardinality({i \in 1..Len(out) : ~KeyLess(f, out[i])})
    IN  IF \E i \in 1..Len(out) : ~KeyLess(f, out[i]) /\ ~KeyLess(out[i], f)
        THEN out
        ELSE SubSeq(out, 1, p) \o <<f>> \o SubSeq(out, p + 1, Len(out))

\* The sorted list with one more element: behind every element that is not
\* greater (sorted() is stable).
InsertSorted(out, f) ==
    LET p == Cardinality({i \in 1..Len(out) : ~KeyLess(f, out[i])})
    IN  SubSeq(out, 1, p) \o <<f>> \o SubSeq(out, p + 1, Len(out))

RECURSIVE SortFrom(_, _, _)
SortFrom(fs, i, out) ==
    IF i > Len(fs) THEN out ELSE SortFrom(fs, i + 1, InsertSorted(out, fs[i]))

\* sorted(findings, key=...)
sorted(fs) == SortFrom(fs, 1, <<>>)

\* The list before it is sorted: the three extend calls.
Extended(file_diffs) ==
    lint_findings(file_diffs)
    \o python_security_findings(file_diffs)
    \o complexity_findings(file_diffs)

run_all_analyzers(file_diffs) == sorted(Extended(file_diffs))

(***************************************************************************)
(* app/review_formatter.py                                                 *)
(***************************************************************************)
\* Whether int(raw) accepts raw: an optional sign and one or more digits, with
\* whitespace around them allowed.
IsIntText(raw) ==
    LET t == strip(raw)
        body == IF startswith(t, <<"-">>) \/ startswith(t, <<"+">>)
                THEN SliceFrom(t, 1) ELSE t
    IN  body # <<>> /\ \A k \in 1..Len(body) : IsDigit(body[k])

IntOfText(raw) ==
    LET t == strip(raw) IN
    IF startswith(t, <<"-">>) THEN 0 - int(SliceFrom(t, 1))
    ELSE IF startswith(t, <<"+">>) THEN int(SliceFrom(t, 1))
    ELSE int(t)

\* _env_int(name, default) for a variable whose value is raw_value
env_int(raw_value, default) ==
    IF raw_value = Unset THEN default
    ELSE IF IsIntText(raw_value) THEN IntOfText(raw_value)
    ELSE default

\* the default of MAX_INLINE_COMMENTS
DefaultMaxInlineComments == 50

\* severity.upper()
upper(severity) ==
    CASE severity = "high" -> "HIGH"
      [] severity = "medium" -> "MEDIUM"
      [] severity = "low" -> "LOW"
      [] OTHER -> severity

\* unique_key = (finding.path, finding.line, finding.rule_id)
unique_key(finding) == <<finding.path, finding.line, finding.rule_id>>

\* The dict that _build_inline_comments appends for a finding.  The body is the
\* sequence of its pieces; the pieces are a fixed message and a snippet of at most
\* 160 characters, so the slice [:64000] keeps all of it.
Comment(finding) ==
    [path |-> finding.path,
     line |-> finding.line,
     side |-> "RIGHT",
     body |-> <<"[", upper(finding.severity), "] ">> \o finding.message
              \o <<"\n\n", Grave>>
              \o (IF finding.snippet = <<>> THEN <<"<", "e", "m", "p", "t", "y", " ", "l", "i", "n", "e", ">">> ELSE finding.snippet)
              \o <<Grave>>]

\* value.replace("|", "\\|")
RECURSIVE escape_cell(_)
escape_cell(value) ==
    IF value = <<>> THEN <<>>
    ELSE (IF value[1] = "|" THEN <<"\\", "|">> ELSE <<value[1]>>)
         \o escape_cell(SubSeq(value, 2, Len(value)))

\* str(n) for an integer n
IntText(n) == IF n < 0 THEN <<"-">> \o ToDigits(0 - n) ELSE ToDigits(n)

\* "\n".join(lines)
RECURSIVE JoinFrom(_, _)
JoinFrom(lines, i) ==
    IF i > Len(lines) THEN <<>>
    ELSE IF i = Len(lines) THEN lines[i]
    ELSE lines[i] \o <<"\n">> \o JoinFrom(lines, i + 1)

Join(lines) == JoinFrom(lines, 1)

\* sum(len(file_diff.changed_lines) for file_diff in diffs_list)
RECURSIVE ChangedLinesFrom(_, _)
ChangedLinesFrom(diffs_list, i) ==
    IF i > Len(diffs_list) THEN 0
    ELSE Len(diffs_list[i].changed_lines) + ChangedLinesFrom(diffs_list, i + 1)

changed_lines_count(diffs_list) == ChangedLinesFrom(diffs_list, 1)

\* Counter(finding.severity for finding in findings_list).get(severity, 0)
severity_counts(findings_list, severity) ==
    Cardinality({i \in 1..Len(findings_list) : findings_list[i].severity = severity})

\* The lines both bodies start with.
ScopeLines(diffs_list) ==
    <<<<"#", "#", " ", "S", "i", "e", "G", "e", " ", "G", "a", "t", "e", "k", "e", "e", "p", "e", "r", " ", "R", "e", "v", "i", "e", "w">>,
      <<>>,
      <<"#", "#", "#", " ", "S", "c", "o", "p", "e">>,
      <<"-", " ", "F", "i", "l", "e", "s", " ", "a", "n", "a", "l", "y", "z", "e", "d", ":", " ">> \o ToDigits(Len(diffs_list)),
      <<"-", " ", "C", "h", "a", "n", "g", "e", "d", " ", "l", "i", "n", "e", "s", " ", "a", "n", "a", "l", "y", "z", "e", "d", ":", " ">> \o ToDigits(changed_lines_count(diffs_list))>>

\* The body that is returned when there are no findings (lines 22-29).
EmptyBody(diffs_list) ==
    Join(ScopeLines(diffs_list)
         \o <<<<>>, <<"#", "#", "#", " ", "R", "e", "s", "u", "l", "t">>, <<"N", "o", " ", "i", "s", "s", "u", "e", "s", " ", "f", "o", "u", "n", "d", " ", "o", "n", " ", "c", "h", "a", "n", "g", "e", "d", " ", "l", "i", "n", "e", "s", ".">>>>)

\* body_lines as it is first assigned (lines 33-51)
HeadingLines(findings_list, diffs_list) ==
    ScopeLines(diffs_list)
    \o <<<<"-", " ", "F", "i", "n", "d", "i", "n", "g", "s", ":", " ">> \o ToDigits(Len(findings_list)),
         <<>>,
         <<"#", "#", "#", " ", "S", "e", "v", "e", "r", "i", "t", "y", " ", "B", "r", "e", "a", "k", "d", "o", "w", "n">>,
         <<"|", " ", "S", "e", "v", "e", "r", "i", "t", "y", " ", "|", " ", "C", "o", "u", "n", "t", " ", "|">>,
         <<"|", " ", "-", "-", "-", " ", "|", " ", "-", "-", "-", ":", " ", "|">>,
         <<"|", " ", "H", "I", "G", "H", " ", "|", " ">> \o ToDigits(severity_counts(findings_list, "high")) \o <<" ", "|">>,
         <<"|", " ", "M", "E", "D", "I", "U", "M", " ", "|", " ">> \o ToDigits(severity_counts(findings_list, "medium")) \o <<" ", "|">>,
         <<"|", " ", "L", "O", "W", " ", "|", " ">> \o ToDigits(severity_counts(findings_list, "low")) \o <<" ", "|">>,
         <<>>,
         <<"#", "#", "#", " ", "F", "i", "n", "d", "i", "n", "g", "s", " ", "(", "C", "h", "a", "n", "g", "e", "d", " ", "L", "i", "n", "e", "s", " ", "O", "n", "l", "y", ")">>,
         <<"|", " ", "F", "i", "l", "e", " ", "|", " ", "L", "i", "n", "e", " ", "|", " ", "S", "e", "v", "e", "r", "i", "t", "y", " ", "|", " ", "R", "u", "l", "e", " ", "|", " ", "M", "e", "s", "s", "a", "g", "e", " ", "|">>,
         <<"|", " ", "-", "-", "-", " ", "|", " ", "-", "-", "-", ":", " ", "|", " ", "-", "-", "-", " ", "|", " ", "-", "-", "-", " ", "|", " ", "-", "-", "-", " ", "|">>>>

\* max_table_rows = 40
max_table_rows == 40

\* The number of findings in findings_list[:max_table_rows]
TableLength(n, limit) == IF n < limit THEN n ELSE limit

\* The line the table loop appends for a finding (lines 55-62)
TableRowLine(finding) ==
    <<"|", " ", Grave>> \o escape_cell(finding.path) \o <<Grave, " ", "|", " ">>
    \o ToDigits(finding.line) \o <<" ", "|", " ">>
    \o <<upper(finding.severity)>> \o <<" ", "|", " ", Grave>>
    \o escape_cell(finding.rule_id) \o <<Grave, " ", "|", " ">>
    \o escape_cell(finding.message) \o <<" ", "|">>

\* IsTruncated with >= for >.
IsTruncatedAtLimit(n, limit) == n >= limit

\* len(findings_list) > max_table_rows
IsTruncated(n, limit) == n > limit

\* The lines that are appended when the table is truncated (lines 65-74)
TruncationLines(n, limit) ==
    <<<<>>,
      <<"_", "T", "a", "b", "l", "e", " ", "t", "r", "u", "n", "c", "a", "t", "e", "d", " ", "t", "o", " ", "f", "i", "r", "s", "t", " ">> \o ToDigits(limit) \o <<" ", "f", "i", "n", "d", "i", "n", "g", "s", ";", " ">>
      \o ToDigits(n - limit) \o <<" ", "a", "d", "d", "i", "t", "i", "o", "n", "a", "l", " ", "f", "i", "n", "d", "i", "n", "g", "(", "s", ")", " ", "i", "n", "c", "l", "u", "d", "e", "d", " ", "i", "n", " ", "s", "u", "m", "m", "a", "r", "y", " ", "o", "n", "l", "y", ".", "_">>>>

\* _build_inline_comments(findings, limit) from its loop on: the list with the
\* comments of findings_list[i:] appended.
RECURSIVE InlineFrom(_, _, _, _, _)
InlineFrom(findings_list, limit, i, out, keys) ==
    IF i > Len(findings_list) THEN out
    ELSE IF unique_key(findings_list[i]) \in keys
         THEN InlineFrom(findings_list, limit, i + 1, out, keys)
         ELSE IF Len(out) + 1 >= limit
              THEN Append(out, Comment(findings_list[i]))
              ELSE InlineFrom(findings_list, limit, i + 1,
                              Append(out, Comment(findings_list[i])),
                              keys \cup {unique_key(findings_list[i])})

build_inline_comments(findings_list, limit) ==
    IF limit <= 0 THEN <<>> ELSE InlineFrom(findings_list, limit, 1, <<>>, {})

\* The lines that are appended when findings got no comment (lines 77-86)
InlineLimitLines(n_comments, limit) ==
    <<<<>>,
      <<"_", "I", "n", "l", "i", "n", "e", " ", "c", "o", "m", "m", "e", "n", "t", "s", " ", "l", "i", "m", "i", "t", "e", "d", " ", "t", "o", " ">> \o ToDigits(n_comments)
      \o <<" ", "l", "i", "n", "e", "s", " ", "(", "c", "o", "n", "f", "i", "g", " ">> \o <<Grave>> \o <<"M", "A", "X", "_", "I", "N", "L", "I", "N", "E", "_", "C", "O", "M", "M", "E", "N", "T", "S", "=">> \o IntText(limit)
      \o <<Grave>> \o <<")", ".", "_">>>>


(***************************************************************************)
(* The structured diff a patch text is rendered from: what the diff        *)
(* producer (the pull-request files API) knows about each line.  A "hunk"  *)
(* line opens a hunk whose first post-change line is start; "add", "del" *)
(* and "ctx" lines carry the text of an added, deleted and unchanged line; *)
(* "marker" is the no-newline-at-end-of-file marker; "junk" is a line that *)
(* starts like a hunk header and is none.                                  *)
(***************************************************************************)
HunkStarts == {0, 1, 12}

AddContents == {<<"x">>, <<"+", "+">>}

DelContents == {<<"x">>, <<"-", "-">>}

CtxContents == {<<"x">>}

DiffLine(kind, start, content) == [kind |-> kind, start |-> start, content |-> content]

DiffLines ==
    {DiffLine("hunk", n, <<>>) : n \in HunkStarts}
    \cup {DiffLine("add", 0, c) : c \in AddContents}
    \cup {DiffLine("del", 0, c) : c \in DelContents}
    \cup {DiffLine("ctx", 0, c) : c \in CtxContents}
    \cup {DiffLine("marker", 0, <<>>), DiffLine("junk", 0, <<>>)}

Diffs == UNION {[1..k -> DiffLines] : k \in 0..MaxPatchLines}

\* The index of the last line of the hunk that the header at index i opens.
RECURSIVE HunkEnd(_, _)
HunkEnd(d, i) ==
    IF i + 1 <= Len(d) /\ d[i + 1].kind # "hunk" THEN HunkEnd(d, i + 1) ELSE i

CountKind(d, from, to, kinds) == Cardinality({j \in from..to : d[j].kind \in kinds})

\* start[,count]: the count is left out when it is 1
RangeText(start, cnt) ==
    ToDigits(start) \o (IF cnt = 1 THEN <<>> ELSE <<",">> \o ToDigits(cnt))

\* The old-file start of the hunk at i: its new start less the lines the earlier
\* hunks added, plus those they deleted.  On either side a hunk with no line
\* names the line before it.
OldStart(d, i) ==
    LET net == CountKind(d, 1, i - 1, {"add"}) - CountKind(d, 1, i - 1, {"del"})
        first == d[i].start
                   + (IF CountKind(d, i + 1, HunkEnd(d, i), {"ctx", "add"}) = 0 THEN 1 ELSE 0)
        at  == first - net
                 - (IF CountKind(d, i + 1, HunkEnd(d, i), {"ctx", "del"}) = 0 THEN 1 ELSE 0)
    IN  IF at > 0 THEN at ELSE 0

MarkerText ==
    <<"\\", " ", "N", "o", " ", "n", "e", "w", "l", "i", "n", "e">>

RenderLine(d, i) ==
    LET l == d[i] IN
    CASE l.kind = "hunk" ->
            <<"@", "@", " ", "-">>
            \o RangeText(OldStart(d, i), CountKind(d, i + 1, HunkEnd(d, i), {"ctx", "del"}))
            \o <<" ", "+">>
            \o RangeText(l.start, CountKind(d, i + 1, HunkEnd(d, i), {"ctx", "add"}))
            \o <<" ", "@", "@">>
      [] l.kind = "add" -> <<"+">> \o l.content
      [] l.kind = "del" -> <<"-">> \o l.content
      [] l.kind = "ctx" -> <<" ">> \o l.content
      [] l.kind = "marker" -> MarkerText
      [] OTHER -> <<"@", "@", " ", "-", "1", " ", "+", "x", " ", "@", "@">>

\* "\n".join(lines)
RECURSIVE Render(_, _)
Render(d, i) ==
    IF i > Len(d) THEN <<>>
    ELSE RenderLine(d, i) \o (IF i < Len(d) THEN <<"\n">> ELSE <<>>) \o Render(d, i + 1)

(***************************************************************************)
(* The changed-file payloads of the modelled runs: every sequence of at    *)
(* most MaxFiles descriptors, each a filename with the patch text rendered *)
(* from a structured diff, or with no patch.                               *)
(***************************************************************************)
Hunk(n) == DiffLine("hunk", n, <<>>)

Add(c) == DiffLine("add", 0, c)

Del(c) == DiffLine("del", 0, c)

Ctx(c) == DiffLine("ctx", 0, c)

\* Python lines: a call of eval with a marker comment and a trailing blank, a
\* print indented with a tab, an empty line, and a line of calls the security
\* rules name.
PyDiff ==
    <<Hunk(3),
      Add(<<"e", "v", "a", "l", "(", "x", ")", " ", "#", " ", "T", "O", "D", "O", " ">>),
      Ctx(<<"y", " ", "=", " ", "1">>),
      Add(<<"\t", "p", "r", "i", "n", "t", "(", "x", ")">>),
      Add(<<>>),
      Add(<<"e", "x", "e", "c", "(", "y", "a", "m", "l", ".", "l", "o", "a", "d", "(", "p", "i", "c", "k", "l", "e", ".", "l", "o", "a", "d", "s", "(", "s", "u", "b", "p", "r", "o", "c", "e", "s", "s", ".", "r", "u", "n", "(", "c", ",", " ", "s", "h", "e", "l", "l", "=", "T", "r", "u", "e", ")", ")", ")", ")">>)>>

\* A chained conditional inside a console.log call, and a control-flow line
\* indented by 16 blanks with three boolean operators.
JsDiff ==
    <<Hunk(1),
      Add(<<"c", "o", "n", "s", "o", "l", "e", ".", "l", "o", "g", "(", "a", " ", "?", " ", "b", " ", ":", " ", "c", " ", "?", " ", "d", " ", ":", " ", "e", ")">>),
      Add(<<" ", " ", " ", " ", " ", " ", " ", " ", " ", " ", " ", " ", " ", " ", " ", " ", "i", "f", " ", "a", " ", "a", "n", "d", " ", "b", " ", "o", "r", " ", "c", " ", "a", "n", "d", " ", "d", ":">>)>>

\* Two hunks with three lines of context, as the pull-request files API writes
\* them: eight comment lines that start with "--" are replaced by one line, and
\* a line is added eight lines further down.
ShiftDiff ==
    <<Hunk(1),
      Del(<<"-", "-", " ", "o", "l", "d">>), Del(<<"-", "-", " ", "o", "l", "d">>), Del(<<"-", "-", " ", "o", "l", "d">>), Del(<<"-", "-", " ", "o", "l", "d">>),
      Del(<<"-", "-", " ", "o", "l", "d">>), Del(<<"-", "-", " ", "o", "l", "d">>), Del(<<"-", "-", " ", "o", "l", "d">>), Del(<<"-", "-", " ", "o", "l", "d">>),
      Add(<<"#", " ", "T", "O", "D", "O">>),
      Ctx(<<"a">>), Ctx(<<"b">>), Ctx(<<"c">>),
      Hunk(6),
      Ctx(<<"e">>), Ctx(<<"f">>), Ctx(<<"g">>),
      Add(<<"#", " ", "F", "I", "X", "M", "E">>)>>

\* A patch that only deletes.
NoAddsDiff == <<Hunk(0), Del(<<"x">>)>>

SampleDiffs == {PyDiff, JsDiff, ShiftDiff, NoAddsDiff}

Descriptor(filename, d) ==
    ChangedFile(filename, TRUE, Render(d, 1),
                CountKind(d, 1, Len(d), {"add"}), CountKind(d, 1, Len(d), {"del"}))

\* A python file, a javascript file whose extension is in upper case, and a
\* blank filename.
Filenames == {<<"s", "r", "c", "/", "a", ".", "p", "y">>, <<"b", ".", "J", "S">>, <<" ">>}

\* Each filename with each patch, and with no patch.
Descriptors ==
    {Descriptor(f, d) : f \in Filenames, d \in SampleDiffs}
    \cup {ChangedFile(f, FALSE, <<>>, 0, 0) : f \in Filenames}

Payloads == UNION {[1..k -> Descriptors] : k \in 0..MaxFiles}

\* The findings build_review_payload is given: n distinct findings in the
\* aggregator's order, the first third high, the second medium, the rest low;
\* the path of the high ones holds a "|".  In variant 0 every finding has a line
\* of its own; in variant 1 two findings in a row share the line.
SampleFinding(i, n, variant) ==
    LET third == (n + 2) \div 3
        rank == IF i <= third THEN 0 ELSE IF i <= 2 * third THEN 1 ELSE 2
    IN  Finding(IF rank = 0 THEN <<"l", "i", "b", "/", "a", "|", "b", ".", "p", "y">> ELSE <<"s", "r", "c", "/", "a", ".", "p", "y">>,
                IF variant = 0 THEN i ELSE (i + 1) \div 2,
                <<"high", "medium", "low">>[rank + 1],
                <<<<"P", "Y", "_", "E", "V", "A", "L", "_", "U", "S", "A", "G", "E">>, <<"P", "Y", "_", "T", "A", "B", "_", "I", "N", "D", "E", "N", "T">>, <<"T", "O", "D", "O", "_", "C", "O", "M", "M", "E", "N", "T">>>>[rank + 1],
                <<"f", "i", "n", "d", "i", "n", "g", " ">> \o ToDigits(i),
                <<"x">>)

FindingCounts ==
    {0, 1, 2, max_table_rows - 1, max_table_rows, max_table_rows + 1, MaxFindings}

FindingsLists ==
    {[i \in 1..n |-> SampleFinding(i, n, variant)] :
        n \in FindingCounts, variant \in {0, 1}}

DiffsLists == {<<>>, build_file_diffs(<<Descriptor(<<"s", "r", "c", "/", "a", ".", "p", "y">>, PyDiff)>>)}

\* The FileDiffs run_all_analyzers is given: those of the sample patches on a
\* python and a javascript path, one more python file with a line 3, and two
\* FileDiffs without changed lines.
AnalyzerDiffs ==
    {build_file_diffs(<<Descriptor(f, d)>>)[1] :
        f \in {<<"s", "r", "c", "/", "a", ".", "p", "y">>, <<"b", ".", "J", "S">>}, d \in {PyDiff, JsDiff, ShiftDiff}}
    \cup {FileDiff(<<"s", "r", "c", "/", "a", ".", "p", "y">>, "python", 1, 0, <<ChangedLine(3, <<"#", " ", "F", "I", "X", "M", "E">>)>>),
          FileDiff(<<"s", "r", "c", "/", "a", ".", "p", "y">>, "python", 0, 1, <<>>),
          FileDiff(<<"b", ".", "J", "S">>, "javascript", 0, 0, <<>>)}

AnalyzerInputs == UNION {[1..k -> AnalyzerDiffs] : k \in 0..MaxFiles}

(***************************************************************************)
(* app/review_formatter.py: build_review_payload as one function           *)
(***************************************************************************)
ReviewPayloadWith(findings_list, diffs_list, limit, shown, comments_made) ==
    <<Join(HeadingLines(findings_list, diffs_list)
           \o [i \in 1..shown |-> TableRowLine(findings_list[i])]
           \o (IF IsTruncated(Len(findings_list), max_table_rows)
               THEN TruncationLines(Len(findings_list), max_table_rows) ELSE <<>>)
           \o (IF Len(findings_list) > Len(comments_made)
               THEN InlineLimitLines(Len(comments_made), limit) ELSE <<>>)),
      comments_made>>

build_review_payload(findings_list, diffs_list, limit) ==
    IF findings_list = <<>> THEN <<EmptyBody(diffs_list), <<>>>>
    ELSE ReviewPayloadWith(findings_list, diffs_list, limit,
                           TableLength(Len(findings_list), max_table_rows),
                           build_inline_comments(findings_list, limit))

(***************************************************************************)
(* app/github_webhook.py, app/github_client.py, app/main.py                *)
(***************************************************************************)
\* hmac.new(key, msg, sha256).hexdigest(): a digest names its key and message
hexdigest(key, msg) == <<key, msg>>

\* request.headers.get("X-Hub-Signature-256") of a delivery without the header
NoHeader == [scheme |-> "(unset)", digest |-> Unset]

\* validate_webhook_signature without the comparison of the digests.
validate_prefix_only(webhook_secret, payload, signature_header) ==
    IF webhook_secret = Unset \/ signature_header = NoHeader THEN FALSE
    ELSE signature_header.scheme = "sha256"

\* validate_webhook_signature for a GitHub delivery; a header is its text
\* before the first "=" and the digest after it
validate_webhook_signature(webhook_secret, payload, signature_header) ==
    IF webhook_secret = Unset \/ signature_header = NoHeader THEN FALSE
    ELSE IF signature_header.scheme # "sha256" THEN FALSE
    ELSE hexdigest(webhook_secret, payload) = signature_header.digest

SUPPORTED_PR_ACTIONS == {"opened", "reopened", "synchronize", "ready_for_review"}

\* (value or "").strip()
text_or_empty(value) == IF value = Unset THEN <<>> ELSE strip(value)

\* pull_request.get("number") or payload.get("number"); 0 stands for a number
\* that is missing, None or 0
pr_number_of(body) == IF body.number # 0 THEN body.number ELSE body.top_number

\* not owner or not repo or not pr_number or not commit_sha or not installation_id
metadata_missing(body) ==
    \/ text_or_empty(body.login) = <<>>
    \/ text_or_empty(body.name) = <<>>
    \/ pr_number_of(body) = 0
    \/ text_or_empty(body.sha) = <<>>
    \/ body.installation = 0

\* GitHubAppClient.from_env: the names in missing
from_env_missing(environment) ==
    {name \in {"GITHUB_APP_ID", "GITHUB_APP_PRIVATE_KEY", "GITHUB_WEBHOOK_SECRET"} :
        environment[name] = Unset}

\* How handle_webhook is left.
HTTPException(status_code) == [kind |-> "HTTPException", status_code |-> status_code]

Raised(exception) == [kind |-> exception, status_code |-> 0]

Returned(what) == [kind |-> what, status_code |-> 200]

\* class GitHubApiError(RuntimeError); httpx.TransportError is no RuntimeError
IsRuntimeError(exception) == exception \in {"RuntimeError", "GitHubApiError"}

\* The except clauses of handle_webhook (lines 118-123) for an exception that
\* is raised inside its try block.
Except(exception) ==
    IF exception = "GitHubApiError" THEN HTTPException(502)
    ELSE IF IsRuntimeError(exception) THEN HTTPException(500)
    ELSE Raised(exception)

\* per_page, and the length at which get_pull_request_files asks for a next page
PerPage == 100

\* The most pages the files of a pull request are sent in.
MaxPages == 2

(***************************************************************************)
(* The deliveries and the environment of handle_webhook.                   *)
(***************************************************************************)
Secret == <<"s", "3", "c", "r", "3", "t">>

Environments ==
    [GITHUB_WEBHOOK_SECRET : {Unset, Secret},
     GITHUB_APP_ID : {Unset, <<"1">>},
     GITHUB_APP_PRIVATE_KEY : {Unset, <<"k", "e", "y">>}]

CompleteMetadata ==
    [login |-> <<"o", "c", "t", "o">>, name |-> <<"r", "e", "p", "o">>, number |-> 7, top_number |-> 7,
     sha |-> <<"a", "b", "c">>, installation |-> 9]

\* The metadata with one part missing or blank; a number that is only at the
\* top level of the payload is not missing.
Metadata ==
    {CompleteMetadata,
     [CompleteMetadata EXCEPT !.login = Unset],
     [CompleteMetadata EXCEPT !.login = <<" ">>],
     [CompleteMetadata EXCEPT !.name = Unset],
     [CompleteMetadata EXCEPT !.number = 0],
     [CompleteMetadata EXCEPT !.number = 0, !.top_number = 0],
     [CompleteMetadata EXCEPT !.sha = Unset],
     [CompleteMetadata EXCEPT !.installation = 0]}

\* The raw bodies: one that is no JSON text, and the JSON objects with an
\* action (or none), a draft flag and the metadata.
Bodies ==
    {[json |-> j, action |-> a, draft |-> d, login |-> m.login, name |-> m.name,
      number |-> m.number, top_number |-> m.top_number, sha |-> m.sha,
      installation |-> m.installation] :
        j \in {TRUE}, a \in SUPPORTED_PR_ACTIONS \cup {"closed", "(unset)"},
        d \in BOOLEAN, m \in Metadata}
    \cup {[json |-> FALSE, action |-> "(unset)", draft |-> FALSE,
           login |-> Unset, name |-> Unset, number |-> 0, top_number |-> 0,
           sha |-> Unset, installation |-> 0]}

\* The X-Hub-Signature-256 headers a body can come with: none, one of the
\* wrong scheme, one made with another key, one made for another body, and
\* the right one.
Signatures(body) ==
    {NoHeader,
     [scheme |-> "sha1", digest |-> hexdigest(Secret, body)],
     [scheme |-> "sha256", digest |-> hexdigest(<<"o", "t", "h", "e", "r">>, body)],
     [scheme |-> "sha256", digest |-> hexdigest(Secret, [body EXCEPT !.draft = ~@])],
     [scheme |-> "sha256", digest |-> hexdigest(Secret, body)]}

Deliveries ==
    UNION {{[body |-> b, signature |-> h, event |-> e] :
               h \in Signatures(b), e \in {"pull_request", "push"}} : b \in Bodies}

\* What the API answers to the request for a page of files: count files, of
\* which files are kept here.
PageResponses ==
    {[count |-> 0, files |-> <<>>],
     [count |-> 1, files |-> <<Descriptor(<<"s", "r", "c", "/", "a", ".", "p", "y">>, ShiftDiff)>>],
     [count |-> PerPage, files |-> <<Descriptor(<<"b", ".", "J", "S">>, JsDiff)>>]}

\* The values of the environment variable MAX_INLINE_COMMENTS.
EnvValues == {Unset, <<"0">>, <<"-", "1">>, <<"2">>, <<"m", "a", "n", "y">>}

(***************************************************************************)
(* State.                                                                  *)
(***************************************************************************)
VARIABLES
    diff,             \* the structured diff the patch text was rendered from
    patch,            \* parse_patch's argument
    raw_lines,        \* patch.splitlines()
    pos,              \* the index in raw_lines of the next raw_line
    new_line_number,  \* parse_patch's cursor
    changed_lines,    \* parse_patch's result list
    origin,           \* for each element of changed_lines, the index of its raw_line
    ppc,              \* where parse_patch is: "idle", "call", "loop", "done"
    files_payload,    \* build_file_diffs' argument
    env_max_inline_comments,  \* os.getenv("MAX_INLINE_COMMENTS") as _env_int read it
    file_diffs,       \* build_file_diffs' result
    findings,         \* run_all_analyzers' result
    max_inline_comments,      \* the limit build_review_payload reads
    comments,         \* _build_inline_comments' list
    seen,             \* _build_inline_comments' set of keys
    fi,               \* the index in findings of the loop's next finding
    sources,          \* for each element of comments, the index of its finding
    pc,               \* where the pipeline is
    body_lines,       \* build_review_payload's list of lines
    row,              \* the index in findings of the table loop's next finding
    review_body,      \* the summary build_review_payload returns
    inline_comments,  \* the comments build_review_payload returns
    fpc,              \* where build_review_payload is
    lint_out,         \* what lint_findings returned
    security_out,     \* what python_security_findings returned
    complexity_out,   \* what complexity_findings returned
    apc,              \* where run_all_analyzers is
    env,              \* the environment variables handle_webhook and from_env read
    delivery,         \* the request: raw body, X-Hub-Signature-256, X-GitHub-Event
    pr_files,         \* get_pull_request_files' list
    page,             \* get_pull_request_files' page
    response,         \* how handle_webhook was left
    passed,           \* the checks the delivery has passed, in order
    api_calls,        \* the requests that were sent to the GitHub API, in order
    wpc               \* where handle_webhook is

parser_vars ==
    <<diff, patch, raw_lines, pos, new_line_number, changed_lines, origin, ppc>>

pipeline_vars ==
    <<files_payload, env_max_inline_comments, file_diffs, findings,
      max_inline_comments, comments, seen, fi, sources, pc>>

formatter_vars == <<body_lines, row, review_body, inline_comments, fpc>>

\* The variables of the operations that are run on inputs of their own.
analyzer_vars == <<lint_out, security_out, complexity_out, apc>>

webhook_vars == <<env, delivery, pr_files, page, response, passed, api_calls, wpc>>

rest_vars == <<formatter_vars, analyzer_vars, webhook_vars>>

vars == <<parser_vars, pipeline_vars, rest_vars>>

ParserIdle ==
    /\ diff = <<>>
    /\ patch = <<>>
    /\ raw_lines = <<>>
    /\ pos = 0
    /\ new_line_number = 0
    /\ changed_lines = <<>>
    /\ origin = <<>>
    /\ ppc = "idle"

PipelineIdle ==
    /\ files_payload = <<>>
    /\ env_max_inline_comments = Unset
    /\ file_diffs = <<>>
    /\ findings = <<>>
    /\ max_inline_comments = 0
    /\ comments = <<>>
    /\ seen = {}
    /\ fi = 0
    /\ sources = <<>>
    /\ pc = "idle"

FormatterIdle ==
    /\ body_lines = <<>>
    /\ row = 0
    /\ review_body = <<>>
    /\ inline_comments = <<>>
    /\ fpc = "idle"

AnalyzersIdle ==
    /\ lint_out = <<>>
    /\ security_out = <<>>
    /\ complexity_out = <<>>
    /\ apc = "idle"

WebhookIdle ==
    /\ env = <<>>
    /\ delivery = <<>>
    /\ pr_files = <<>>
    /\ page = 0
    /\ response = <<>>
    /\ passed = <<>>
    /\ api_calls = <<>>
    /\ wpc = "idle"

RestIdle == FormatterIdle /\ AnalyzersIdle /\ WebhookIdle

(***************************************************************************)
(* parse_patch, one loop iteration at a time.                              *)
(***************************************************************************)
InitParser ==
    /\ diff \in Diffs
    /\ patch = Render(diff, 1)
    /\ raw_lines = <<>>
    /\ pos = 0
    /\ new_line_number = 0
    /\ changed_lines = <<>>
    /\ origin = <<>>
    /\ ppc = "call"
    /\ PipelineIdle
    /\ RestIdle

\* lines 54-57: the locals are set and the patch is split
Splitlines ==
    /\ ppc = "call"
    /\ raw_lines' = splitlines(patch)
    /\ pos' = 1
    /\ new_line_number' = InitialLineNumber
    /\ changed_lines' = <<>>
    /\ origin' = <<>>
    /\ ppc' = "loop"
    /\ UNCHANGED <<diff, patch, pipeline_vars, rest_vars>>

\* The loop body on raw_lines[pos].
Iterate ==
    LET r == ParseLine(new_line_number, changed_lines, raw_lines[pos]) IN
    /\ new_line_number' = r[1]
    /\ changed_lines' = r[2]
    /\ origin' = IF Len(r[2]) > Len(changed_lines) THEN Append(origin, pos) ELSE origin
    /\ pos' = pos + 1
    /\ UNCHANGED <<diff, patch, raw_lines, ppc, pipeline_vars, rest_vars>>

InLoop == ppc = "loop" /\ pos <= Len(raw_lines)

\* lines 58-63
HunkHeader == InLoop /\ IsHunkLine(raw_lines[pos]) /\ Iterate

\* lines 65-70
AddedLine == InLoop /\ IsAddedLine(raw_lines[pos]) /\ Iterate

\* lines 72-73
DeletedLine == InLoop /\ IsDeletedLine(raw_lines[pos]) /\ Iterate

\* lines 75-76
MarkerLine == InLoop /\ IsMarkerLine(raw_lines[pos]) /\ Iterate

\* line 78
OtherLine == InLoop /\ IsOtherLine(raw_lines[pos]) /\ Iterate

\* line 80
Return ==
    /\ ppc = "loop"
    /\ pos > Len(raw_lines)
    /\ ppc' = "done"
    /\ UNCHANGED <<diff, patch, raw_lines, pos, new_line_number, changed_lines, origin,
                   pipeline_vars, rest_vars>>

NextParser ==
    \/ Splitlines
    \/ HunkHeader
    \/ AddedLine
    \/ DeletedLine
    \/ MarkerLine
    \/ OtherLine
    \/ Return

SpecParser == InitParser /\ [][NextParser]_vars

(***************************************************************************)
(* The pipeline of handle_webhook (main.py, lines 105-107):                *)
(* build_file_diffs, run_all_analyzers, build_review_payload.              *)
(***************************************************************************)
Init ==
    /\ ParserIdle
    /\ RestIdle
    /\ files_payload \in Payloads
    /\ env_max_inline_comments = Unset
    /\ file_diffs = <<>>
    /\ findings = <<>>
    /\ max_inline_comments = 0
    /\ comments = <<>>
    /\ seen = {}
    /\ fi = 0
    /\ sources = <<>>
    /\ pc = "build_file_diffs"

\* file_diffs = build_file_diffs(pr_files)
BuildFileDiffs ==
    /\ pc = "build_file_diffs"
    /\ file_diffs' = build_file_diffs(files_payload)
    /\ pc' = "run_all_analyzers"
    /\ UNCHANGED <<parser_vars, rest_vars, files_payload, env_max_inline_comments, findings,
                   max_inline_comments, comments, seen, fi, sources>>

\* findings = run_all_analyzers(file_diffs)
RunAllAnalyzers ==
    /\ pc = "run_all_analyzers"
    /\ findings' = run_all_analyzers(file_diffs)
    /\ pc' = "build_review_payload"
    /\ UNCHANGED <<parser_vars, rest_vars, files_payload, env_max_inline_comments, file_diffs,
                   max_inline_comments, comments, seen, fi, sources>>

\* build_review_payload with no findings: it returns the body and [] (lines 15-30)
NoFindings ==
    /\ pc = "build_review_payload"
    /\ findings = <<>>
    /\ env_max_inline_comments' \in EnvValues
    /\ max_inline_comments' = env_int(env_max_inline_comments', DefaultMaxInlineComments)
    /\ comments' = <<>>
    /\ pc' = "done"
    /\ UNCHANGED <<parser_vars, rest_vars, files_payload, file_diffs,
                   findings, seen, fi, sources>>

\* build_review_payload with findings, up to its call of _build_inline_comments
\* (lines 15-76)
SomeFindings ==
    /\ pc = "build_review_payload"
    /\ findings # <<>>
    /\ env_max_inline_comments' \in EnvValues
    /\ max_inline_comments' = env_int(env_max_inline_comments', DefaultMaxInlineComments)
    /\ pc' = "build_inline_comments"
    /\ UNCHANGED <<parser_vars, rest_vars, files_payload, file_diffs,
                   findings, comments, seen, fi, sources>>

\* _build_inline_comments, lines 94-95: if limit <= 0: return []
LimitNotPositive ==
    /\ pc = "build_inline_comments"
    /\ max_inline_comments <= 0
    /\ comments' = <<>>
    /\ pc' = "done"
    /\ UNCHANGED <<parser_vars, rest_vars, files_payload, env_max_inline_comments, file_diffs,
                   findings, max_inline_comments, seen, fi, sources>>

\* lines 97-98: the list and the set are empty
EnterLoop ==
    /\ pc = "build_inline_comments"
    /\ max_inline_comments > 0
    /\ comments' = <<>>
    /\ seen' = {}
    /\ sources' = <<>>
    /\ fi' = 1
    /\ pc' = "for_finding"
    /\ UNCHANGED <<parser_vars, rest_vars, files_payload, env_max_inline_comments, file_diffs,
                   findings, max_inline_comments>>

\* lines 101-103: a key that is in seen is skipped
SkipSeen ==
    /\ pc = "for_finding"
    /\ fi <= Len(findings)
    /\ unique_key(findings[fi]) \in seen
    /\ fi' = fi + 1
    /\ UNCHANGED <<parser_vars, rest_vars, files_payload, env_max_inline_comments, file_diffs,
                   findings, max_inline_comments, comments, seen, sources, pc>>

\* SeenAfter with the seen.add of line 104 left out.
SeenAfterForgets(keys, finding) == keys

\* What is in seen after a finding produced a comment (line 104).
SeenAfter(keys, finding) == keys \cup {unique_key(finding)}

\* LimitReached with > for >=.
LimitReachedLate(n, limit) == n > limit

\* Whether the loop ends after an append (lines 118-119).
LimitReached(n, limit) == n >= limit

\* lines 104-119: the key is added, the comment appended, and the loop left when
\* the list holds limit comments
AppendComment ==
    /\ pc = "for_finding"
    /\ fi <= Len(findings)
    /\ unique_key(findings[fi]) \notin seen
    /\ seen' = SeenAfter(seen, findings[fi])
    /\ comments' = Append(comments, Comment(findings[fi]))
    /\ sources' = Append(sources, fi)
    /\ IF LimitReached(Len(comments'), max_inline_comments)
       THEN pc' = "done" /\ fi' = fi
       ELSE pc' = pc /\ fi' = fi + 1
    /\ UNCHANGED <<parser_vars, rest_vars, files_payload, env_max_inline_comments, file_diffs,
                   findings, max_inline_comments>>

\* line 121: the findings are exhausted
ReturnComments ==
    /\ pc = "for_finding"
    /\ fi > Len(findings)
    /\ pc' = "done"
    /\ UNCHANGED <<parser_vars, rest_vars, files_payload, env_max_inline_comments, file_diffs,
                   findings, max_inline_comments, comments, seen, fi, sources>>

Next ==
    \/ BuildFileDiffs
    \/ RunAllAnalyzers
    \/ NoFindings
    \/ SomeFindings
    \/ LimitNotPositive
    \/ EnterLoop
    \/ SkipSeen
    \/ AppendComment
    \/ ReturnComments

Spec == Init /\ [][Next]_vars


(***************************************************************************)
(* build_review_payload (review_formatter.py, lines 11-88) on findings and *)
(* file diffs of its own.                                                  *)
(***************************************************************************)
InitFormatter ==
    /\ ParserIdle
    /\ files_payload = <<>>
    /\ env_max_inline_comments = Unset
    /\ file_diffs \in DiffsLists
    /\ findings \in FindingsLists
    /\ max_inline_comments = 0
    /\ comments = <<>>
    /\ seen = {}
    /\ fi = 0
    /\ sources = <<>>
    /\ pc = "idle"
    /\ body_lines = <<>>
    /\ row = 0
    /\ review_body = <<>>
    /\ inline_comments = <<>>
    /\ fpc = "call"
    /\ AnalyzersIdle
    /\ WebhookIdle

\* lines 15-19: the arguments are copied and the limit is read
ReadLimit ==
    /\ fpc = "call"
    /\ env_max_inline_comments' \in EnvValues
    /\ max_inline_comments' = env_int(env_max_inline_comments', DefaultMaxInlineComments)
    /\ fpc' = "if_findings"
    /\ UNCHANGED <<parser_vars, webhook_vars, analyzer_vars, files_payload, file_diffs, findings, comments, seen,
                   fi, sources, pc, body_lines, row, review_body, inline_comments>>

\* lines 21-30: no findings
EmptyReturn ==
    /\ fpc = "if_findings"
    /\ findings = <<>>
    /\ review_body' = EmptyBody(file_diffs)
    /\ inline_comments' = <<>>
    /\ fpc' = "done"
    /\ UNCHANGED <<parser_vars, webhook_vars, analyzer_vars, pipeline_vars, body_lines, row>>

\* lines 32-53: the counts, and the lines down to the table's header
Heading ==
    /\ fpc = "if_findings"
    /\ findings # <<>>
    /\ body_lines' = HeadingLines(findings, file_diffs)
    /\ row' = 1
    /\ fpc' = "rows"
    /\ UNCHANGED <<parser_vars, webhook_vars, analyzer_vars, pipeline_vars, review_body, inline_comments>>

\* lines 54-62: one iteration of the table loop
TableRow ==
    /\ fpc = "rows"
    /\ row <= TableLength(Len(findings), max_table_rows)
    /\ body_lines' = Append(body_lines, TableRowLine(findings[row]))
    /\ row' = row + 1
    /\ UNCHANGED <<parser_vars, webhook_vars, analyzer_vars, pipeline_vars, review_body, inline_comments, fpc>>

\* lines 64-74: after the loop, the truncation note
AfterTable ==
    /\ fpc = "rows"
    /\ row > TableLength(Len(findings), max_table_rows)
    /\ body_lines' =
          IF IsTruncated(Len(findings), max_table_rows)
          THEN body_lines \o TruncationLines(Len(findings), max_table_rows)
          ELSE body_lines
    /\ fpc' = "inline"
    /\ UNCHANGED <<parser_vars, webhook_vars, analyzer_vars, pipeline_vars, row, review_body, inline_comments>>

\* lines 76-86: the inline comments, and the note when findings got none
InlineComments ==
    /\ fpc = "inline"
    /\ inline_comments' = build_inline_comments(findings, max_inline_comments)
    /\ body_lines' =
          IF Len(findings) > Len(inline_comments')
          THEN body_lines \o InlineLimitLines(Len(inline_comments'), max_inline_comments)
          ELSE body_lines
    /\ fpc' = "return"
    /\ UNCHANGED <<parser_vars, webhook_vars, analyzer_vars, pipeline_vars, row, review_body>>

\* line 88
ReturnBody ==
    /\ fpc = "return"
    /\ review_body' = Join(body_lines)
    /\ fpc' = "done"
    /\ UNCHANGED <<parser_vars, webhook_vars, analyzer_vars, pipeline_vars, body_lines, row, inline_comments>>

NextFormatter ==
    \/ ReadLimit
    \/ EmptyReturn
    \/ Heading
    \/ TableRow
    \/ AfterTable
    \/ InlineComments
    \/ ReturnBody

SpecFormatter == InitFormatter /\ [][NextFormatter]_vars


(***************************************************************************)
(* run_all_analyzers (analyzers/__init__.py, lines 22-42) on file diffs of *)
(* its own.                                                                *)
(***************************************************************************)
InitAnalyzers ==
    /\ ParserIdle
    /\ FormatterIdle
    /\ files_payload = <<>>
    /\ env_max_inline_comments = Unset
    /\ file_diffs \in AnalyzerInputs
    /\ findings = <<>>
    /\ max_inline_comments = 0
    /\ comments = <<>>
    /\ seen = {}
    /\ fi = 0
    /\ sources = <<>>
    /\ pc = "idle"
    /\ lint_out = <<>>
    /\ security_out = <<>>
    /\ complexity_out = <<>>
    /\ apc = "lint"
    /\ WebhookIdle

\* line 30
RunLint ==
    /\ apc = "lint"
    /\ lint_out' = lint_findings(file_diffs)
    /\ apc' = "security"
    /\ UNCHANGED <<parser_vars, webhook_vars, pipeline_vars, formatter_vars, security_out,
                   complexity_out>>

\* line 31
RunSecurity ==
    /\ apc = "security"
    /\ security_out' = python_security_findings(file_diffs)
    /\ apc' = "complexity"
    /\ UNCHANGED <<parser_vars, webhook_vars, pipeline_vars, formatter_vars, lint_out,
                   complexity_out>>

\* line 32
RunComplexity ==
    /\ apc = "complexity"
    /\ complexity_out' = complexity_findings(file_diffs)
    /\ apc' = "sort"
    /\ UNCHANGED <<parser_vars, webhook_vars, pipeline_vars, formatter_vars, lint_out,
                   security_out>>

\* lines 34-42
SortFindings ==
    /\ apc = "sort"
    /\ findings' = sorted(lint_out \o security_out \o complexity_out)
    /\ apc' = "done"
    /\ UNCHANGED <<parser_vars, webhook_vars, formatter_vars, files_payload,
                   env_max_inline_comments, file_diffs, max_inline_comments,
                   comments, seen, fi, sources, pc, lint_out, security_out,
                   complexity_out>>

NextAnalyzers ==
    \/ RunLint
    \/ RunSecurity
    \/ RunComplexity
    \/ SortFindings

SpecAnalyzers == InitAnalyzers /\ [][NextAnalyzers]_vars


(***************************************************************************)
(* handle_webhook (main.py, lines 37-134), one delivery.                   *)
(***************************************************************************)
InitWebhook ==
    /\ ParserIdle
    /\ PipelineIdle
    /\ FormatterIdle
    /\ AnalyzersIdle
    /\ env \in Environments
    /\ delivery \in Deliveries
    /\ pr_files = <<>>
    /\ page = 0
    /\ response = <<>>
    /\ passed = <<>>
    /\ api_calls = <<>>
    /\ wpc = "secret"

\* The delivery passes a check.
Advance(check, next) ==
    /\ passed' = Append(passed, check)
    /\ wpc' = next
    /\ UNCHANGED response

\* handle_webhook is left.
Respond(how) ==
    /\ response' = how
    /\ wpc' = "responded"
    /\ UNCHANGED passed

NoCall == UNCHANGED <<parser_vars, pipeline_vars, formatter_vars, analyzer_vars,
                      env, delivery, pr_files, page, api_calls>>

\* lines 43-49
ReadSecret ==
    /\ wpc = "secret"
    /\ IF env["GITHUB_WEBHOOK_SECRET"] = Unset
       THEN Respond(HTTPException(500))
       ELSE Advance("secret", "signature")
    /\ NoCall

\* lines 51-56
ValidateSignature ==
    /\ wpc = "signature"
    /\ IF validate_webhook_signature(env["GITHUB_WEBHOOK_SECRET"], delivery.body,
                                     delivery.signature)
       THEN Advance("signature", "json")
       ELSE Respond(HTTPException(401))
    /\ NoCall

\* lines 58-61
ParseJson ==
    /\ wpc = "json"
    /\ IF delivery.body.json
       THEN Advance("json", "event")
       ELSE Respond(HTTPException(400))
    /\ NoCall

\* lines 63-68
CheckEvent ==
    /\ wpc = "event"
    /\ IF delivery.event # "pull_request"
       THEN Respond(Returned("ignored"))
       ELSE Advance("event", "action")
    /\ NoCall

\* lines 70-76
CheckAction ==
    /\ wpc = "action"
    /\ IF delivery.body.action \notin SUPPORTED_PR_ACTIONS
       THEN Respond(Returned("ignored"))
       ELSE Advance("action", "draft")
    /\ NoCall

\* lines 78-80
CheckDraft ==
    /\ wpc = "draft"
    /\ IF delivery.body.draft
       THEN Respond(Returned("ignored"))
       ELSE Advance("draft", "metadata")
    /\ NoCall

\* lines 82-93
CheckMetadata ==
    /\ wpc = "metadata"
    /\ IF metadata_missing(delivery.body)
       THEN Respond(HTTPException(400))
       ELSE Advance("metadata", "client")
    /\ NoCall

\* line 95: get_github_client() is called outside the try block, and from_env
\* raises RuntimeError when a variable is missing
GetClient ==
    /\ wpc = "client"
    /\ IF from_env_missing(env) # {}
       THEN Respond(Raised("RuntimeError"))
       ELSE wpc' = "token" /\ UNCHANGED <<response, passed>>
    /\ NoCall

\* line 98: get_installation_token.  The request is answered with a token,
\* answered without one, answered with an unexpected status, or not answered
\* (the HTTP client raises a transport error).
GetInstallationToken ==
    /\ wpc = "token"
    /\ api_calls' = Append(api_calls, "token")
    /\ \E outcome \in {"token", "no_token", "status", "unreachable"} :
          CASE outcome = "token" -> Advance("token", "files")
            [] outcome = "unreachable" -> Respond(Except("httpx.TransportError"))
            [] OTHER -> Respond(Except("GitHubApiError"))
    /\ page' = 1
    /\ pr_files' = <<>>
    /\ UNCHANGED <<parser_vars, pipeline_vars, formatter_vars, analyzer_vars,
                   env, delivery>>

\* lines 99-104: one request of get_pull_request_files' loop
GetFilesPage ==
    /\ wpc = "files"
    /\ api_calls' = Append(api_calls, "files")
    /\ \/ \E answer \in PageResponses :
             /\ answer.count < PerPage \/ page < MaxPages
             /\ pr_files' = pr_files \o answer.files
             /\ IF answer.count < PerPage
                THEN Advance("files", "analyze") /\ page' = page
                ELSE page' = page + 1 /\ UNCHANGED <<response, passed, wpc>>
       \/ \E outcome \in {"not_a_list", "status", "unreachable"} :
             /\ IF outcome = "unreachable"
                THEN Respond(Except("httpx.TransportError"))
                ELSE Respond(Except("GitHubApiError"))
             /\ UNCHANGED <<pr_files, page>>
    /\ UNCHANGED <<parser_vars, pipeline_vars, formatter_vars, analyzer_vars,
                   env, delivery>>

\* lines 105-107
Analyze ==
    /\ wpc = "analyze"
    /\ files_payload' = pr_files
    /\ file_diffs' = build_file_diffs(pr_files)
    /\ findings' = run_all_analyzers(file_diffs')
    /\ env_max_inline_comments' \in EnvValues
    /\ max_inline_comments' = env_int(env_max_inline_comments', DefaultMaxInlineComments)
    /\ LET returned == build_review_payload(findings', file_diffs', max_inline_comments')
       IN  review_body' = returned[1] /\ inline_comments' = returned[2]
    /\ wpc' = "post"
    /\ UNCHANGED <<parser_vars, comments, seen, fi, sources, pc, body_lines, row, fpc,
                   analyzer_vars, env, delivery, pr_files, page, response, passed,
                   api_calls>>

\* lines 109-117: post_pull_request_review
PostReview ==
    /\ wpc = "post"
    /\ api_calls' = Append(api_calls, "review")
    /\ \E outcome \in {"posted", "not_a_dict", "status", "unreachable"} :
          CASE outcome = "posted" -> wpc' = "return" /\ UNCHANGED <<response, passed>>
            [] outcome = "unreachable" -> Respond(Except("httpx.TransportError"))
            [] OTHER -> Respond(Except("GitHubApiError"))
    /\ UNCHANGED <<parser_vars, pipeline_vars, formatter_vars, analyzer_vars,
                   env, delivery, pr_files, page>>

\* lines 125-134
ReturnOk ==
    /\ wpc = "return"
    /\ Respond(Returned("ok"))
    /\ NoCall

NextWebhook ==
    \/ ReadSecret
    \/ ValidateSignature
    \/ ParseJson
    \/ CheckEvent
    \/ CheckAction
    \/ CheckDraft
    \/ CheckMetadata
    \/ GetClient
    \/ GetInstallationToken
    \/ GetFilesPage
    \/ Analyze
    \/ PostReview
    \/ ReturnOk

SpecWebhook == InitWebhook /\ [][NextWebhook]_vars


(***************************************************************************)
(* What the structured diff says the added lines are.                      *)
(***************************************************************************)
\* The index of the header of the hunk that line i of the diff belongs to (0: none).
RECURSIVE HunkOf(_, _)
HunkOf(d, i) ==
    IF i = 0 THEN 0
    ELSE IF d[i].kind = "hunk" THEN i ELSE HunkOf(d, i - 1)

NewCount(d, h) == CountKind(d, h + 1, HunkEnd(d, h), {"ctx", "add"})

\* The first post-change line a hunk after the hunk at h may start at.
NextFree(d, h) == d[h].start + (IF NewCount(d, h) > 0 THEN NewCount(d, h) ELSE 1)

\* A unified diff of one file as a diff producer writes it: it opens with a hunk
\* header, every header is a real one, a hunk that holds post-change lines starts
\* at line 1 or later, and the hunks are in ascending order and do not overlap.
WellFormed(d) ==
    /\ Len(d) >= 1
    /\ d[1].kind = "hunk"
    /\ \A i \in 1..Len(d) : d[i].kind # "junk"
    /\ \A h \in 1..Len(d) :
          d[h].kind = "hunk" =>
             /\ NewCount(d, h) > 0 => d[h].start >= 1
             /\ HunkEnd(d, h) < Len(d) => d[HunkEnd(d, h) + 1].start >= NextFree(d, h)

\* The 1-based position, in the post-change file, of the line at index i of the
\* diff: the hunk's start plus the post-change lines of the hunk before it.
TruePosition(d, i) ==
    d[HunkOf(d, i)].start + CountKind(d, HunkOf(d, i) + 1, i - 1, {"ctx", "add"})

RECURSIVE AddedFrom(_, _)
AddedFrom(d, i) ==
    IF i > Len(d) THEN <<>>
    ELSE (IF d[i].kind = "add"
          THEN <<ChangedLine(TruePosition(d, i), d[i].content)>> ELSE <<>>)
         \o AddedFrom(d, i + 1)

\* The lines the diff adds, in order, at their post-change positions.
TrueAdded(d) == AddedFrom(d, 1)

Numbers(cl) == [i \in 1..Len(cl) |-> cl[i].number]

MatchedHeaderAt(k) ==
    /\ IsHunkLine(raw_lines[k])
    /\ HUNK_HEADER_RE(raw_lines[k]).matched

HeaderStart(k) == int(HUNK_HEADER_RE(raw_lines[k]).group1)

\* The index of the last matched hunk header before raw line k (0: none).
RECURSIVE NearestHeader(_)
NearestHeader(k) ==
    IF k <= 1 THEN 0
    ELSE IF MatchedHeaderAt(k - 1) THEN k - 1 ELSE NearestHeader(k - 1)

(***************************************************************************)
(* Claims about parse_patch (SpecParser).                                  *)
(***************************************************************************)
\* C1: for a well-formed patch of one file, parse_patch returns exactly the lines
\* the diff adds, in order, each numbered with its position in the post-change
\* file, whatever the text of the lines is.
C1_AddedLinesAtTruePositions ==
    (ppc = "done" /\ WellFormed(diff)) => changed_lines = TrueAdded(diff)

\* C2: one hunk header with new start N followed only by K lines that begin with
\* "+" gives K ChangedLines numbered N, N+1, ..., N+K-1.
C2_OneHunkOfPlusLines ==
    (/\ ppc = "done"
     /\ Len(raw_lines) >= 1
     /\ MatchedHeaderAt(1)
     /\ \A i \in 2..Len(raw_lines) : startswith(raw_lines[i], <<"+">>))
    => Numbers(changed_lines)
         = [k \in 1..(Len(raw_lines) - 1) |-> HeaderStart(1) + k - 1]

\* C3: a raw line that begins with "-" or with "\" emits no ChangedLine and
\* leaves the cursor where it is.
C3_DeletionsAndMarkersChangeNothing ==
    [][(/\ InLoop
        /\ \/ startswith(raw_lines[pos], <<"-">>)
           \/ startswith(raw_lines[pos], <<"\\">>))
       => (changed_lines' = changed_lines /\ new_line_number' = new_line_number)]_vars

\* C4 as stated: the numbers of the ChangedLines are strictly increasing in
\* emission order for any patch text.
C4_StrictlyIncreasing ==
    \A i, j \in 1..Len(changed_lines) :
        i < j => changed_lines[i].number < changed_lines[j].number

\* C4 as amended: the numbers are strictly increasing except across a matched
\* hunk header whose new start is at or below a number already emitted.
C4_IncreasingUpToRewindingHeader ==
    \A i, j \in 1..Len(changed_lines) :
        i < j =>
           \/ changed_lines[i].number < changed_lines[j].number
           \/ \E k \in (origin[i] + 1)..(origin[j] - 1) :
                 MatchedHeaderAt(k) /\ HeaderStart(k) <= changed_lines[i].number

\* Two hunks were parsed, each emitted a line, and the second hunk starts after
\* the number the first one emitted.
C4_Witness ==
    /\ ppc = "done"
    /\ Len(changed_lines) >= 2
    /\ \E k \in (origin[1] + 1)..(origin[2] - 1) :
          MatchedHeaderAt(k) /\ HeaderStart(k) > changed_lines[1].number
    /\ changed_lines[1].number < changed_lines[2].number

\* C5 as stated: every ChangedLine has a number >= 1 for any patch text.
C5_PositiveNumbers ==
    \A i \in 1..Len(changed_lines) : changed_lines[i].number >= 1

\* C5 as amended: every number is >= 0, and it is >= 1 when the nearest matched
\* hunk header before the line has a new start >= 1.
C5_PositiveAfterPositiveHeader ==
    \A i \in 1..Len(changed_lines) :
        /\ changed_lines[i].number >= 0
        /\ (/\ NearestHeader(origin[i]) # 0
            /\ HeaderStart(NearestHeader(origin[i])) >= 1)
           => changed_lines[i].number >= 1

\* A line was emitted after a header with new start >= 1, behind a deletion.
C5_Witness ==
    /\ ppc = "done"
    /\ \E i \in 1..Len(changed_lines) :
          /\ NearestHeader(origin[i]) # 0
          /\ HeaderStart(NearestHeader(origin[i])) >= 1
          /\ origin[i] > 1
          /\ IsDeletedLine(raw_lines[origin[i] - 1])
          /\ changed_lines[i].number >= 1


(***************************************************************************)
(* Claims about the aggregator and the inline comments (Spec).             *)
(***************************************************************************)
Aggregated == pc \notin {"build_file_diffs", "run_all_analyzers"}

SameKey(i, j) == unique_key(findings[i]) = unique_key(findings[j])

\* The indices of the findings that are the first with their key, ascending.
RECURSIVE FirstOccurrencesFrom(_)
FirstOccurrencesFrom(k) ==
    IF k > Len(findings) THEN <<>>
    ELSE (IF \E i \in 1..(k - 1) : SameKey(i, k) THEN <<>> ELSE <<k>>)
         \o FirstOccurrencesFrom(k + 1)

FirstOccurrences == FirstOccurrencesFrom(1)

\* C6: no two inline comments come from findings with the same (path, line,
\* rule_id); a comment comes from the first finding with its key; and findings
\* that differ in rule_id on one path and line each get their comment (when the
\* limit did not end the loop).
C6_OneCommentPerKey ==
    /\ Len(sources) = Len(comments)
    /\ \A a \in 1..Len(comments) :
          /\ comments[a] = Comment(findings[sources[a]])
          /\ \A k \in 1..(sources[a] - 1) : ~SameKey(k, sources[a])
          /\ \A b \in 1..Len(comments) : a # b => ~SameKey(sources[a], sources[b])
    /\ (pc = "done" /\ max_inline_comments > 0 /\ Len(comments) < max_inline_comments)
       => \A k \in 1..Len(findings) :
             \E a \in 1..Len(comments) : SameKey(sources[a], k)

\* A later finding with the key of an earlier one got no comment, and one path
\* and line got two comments for two rule_ids.
C6_Witness ==
    /\ pc = "done"
    /\ \E k, l \in 1..Len(findings) :
          /\ k < l /\ SameKey(k, l)
          /\ \E a \in 1..Len(sources) : sources[a] = k
          /\ \A a \in 1..Len(sources) : sources[a] # l
    /\ \E a, b \in 1..Len(sources) :
          /\ a # b
          /\ comments[a].path = comments[b].path
          /\ comments[a].line = comments[b].line
          /\ findings[sources[a]].rule_id # findings[sources[b]].rule_id

Minimum(a, b) == IF a < b THEN a ELSE b

\* C7: there are at most L comments; none when L <= 0; otherwise they are those
\* of the first min(L, number of distinct keys) first occurrences, in order, and
\* the loop is left at the finding that gave the L-th comment.
C7_LimitedToFirstOccurrences ==
    /\ Len(comments) <= (IF max_inline_comments > 0 THEN max_inline_comments ELSE 0)
    /\ pc = "done" =>
          /\ max_inline_comments <= 0 => comments = <<>>
          /\ max_inline_comments > 0 =>
                /\ sources = SubSeq(FirstOccurrences, 1,
                                    Minimum(max_inline_comments, Len(FirstOccurrences)))
                /\ comments = [a \in 1..Len(sources) |-> Comment(findings[sources[a]])]
                /\ Len(comments) = max_inline_comments
                      => fi = sources[max_inline_comments]

\* The limit ended the loop while findings with further keys were left, after a
\* finding with a key already seen was skipped.
C7_Witness ==
    /\ pc = "done"
    /\ max_inline_comments > 0
    /\ Len(comments) = max_inline_comments
    /\ Len(FirstOccurrences) > max_inline_comments
    /\ \E k \in 1..fi : \A a \in 1..Len(sources) : sources[a] # k

\* The specified rank of a severity.
RankOf(severity) ==
    IF severity = "high" THEN 0
    ELSE IF severity = "medium" THEN 1
    ELSE IF severity = "low" THEN 2
    ELSE 99

StrLessEq(a, b) == a = b \/ StrLess(a, b)

InOrder(A, B) ==
    /\ RankOf(A.severity) <= RankOf(B.severity)
    /\ RankOf(A.severity) = RankOf(B.severity) =>
          /\ StrLessEq(A.path, B.path)
          /\ A.path = B.path =>
                /\ A.line <= B.line
                /\ A.line = B.line => StrLessEq(A.rule_id, B.rule_id)

\* C8: the aggregated findings are sorted by severity rank, then path, then
\* line, then rule_id.
C8_Sorted ==
    Aggregated =>
       \A i, j \in 1..Len(findings) : i < j => InOrder(findings[i], findings[j])

\* The findings hold a high one before a low one, two paths within one rank,
\* two lines within one path and rank, and two rule_ids on one line.
C8_Witness ==
    /\ Aggregated
    /\ \E i, j \in 1..Len(findings) :
          i < j /\ findings[i].severity = "high" /\ findings[j].severity = "low"
    /\ \E i, j \in 1..Len(findings) :
          /\ i < j
          /\ findings[i].severity = findings[j].severity
          /\ findings[i].path # findings[j].path
    /\ \E i, j \in 1..Len(findings) :
          /\ i < j
          /\ findings[i].severity = findings[j].severity
          /\ findings[i].path = findings[j].path
          /\ findings[i].line < findings[j].line
    /\ \E i, j \in 1..Len(findings) :
          /\ i < j
          /\ findings[i].severity = findings[j].severity
          /\ findings[i].path = findings[j].path
          /\ findings[i].line = findings[j].line
          /\ findings[i].rule_id # findings[j].rule_id

\* run_all_analyzers has returned and its result has not been used yet.
JustAggregated == pc = "build_review_payload"

Occurrences(fs, f) == Cardinality({i \in 1..Len(fs) : fs[i] = f})

SameMultiset(fs, gs) ==
    /\ Len(fs) = Len(gs)
    /\ \A i \in 1..Len(gs) : Occurrences(fs, gs[i]) = Occurrences(gs, gs[i])

\* C9: the aggregated findings are the findings the three analyzers return, each
\* as often as they return it.
C9_Permutation ==
    JustAggregated => SameMultiset(findings, Extended(file_diffs))

\* The analyzers returned one finding twice, and more than one of them
\* returned findings.
C9_Witness ==
    /\ JustAggregated
    /\ \E i, j \in 1..Len(findings) : i < j /\ findings[i] = findings[j]
    /\ lint_findings(file_diffs) # <<>>
    /\ \/ python_security_findings(file_diffs) # <<>>
       \/ complexity_findings(file_diffs) # <<>>

\* A payload as the pull-request files API sends it: no filename twice, and
\* every patch the text of a well-formed diff.
ValidPayload(payload) ==
    /\ \A i, j \in 1..Len(payload) :
          i # j => strip(payload[i].filename) # strip(payload[j].filename)
    /\ \A i \in 1..Len(payload) :
          payload[i].has_patch =>
             \E d \in SampleDiffs : WellFormed(d) /\ payload[i].patch = Render(d, 1)

\* C10: no two aggregated findings share (path, line, rule_id); stated for the
\* payloads the pull-request files API can send.
C10_NoSharedKey ==
    (Aggregated /\ ValidPayload(files_payload)) =>
       \A i, j \in 1..Len(findings) : i < j => ~SameKey(i, j)


(***************************************************************************)
(* Claims about the summary (SpecFormatter).                               *)
(***************************************************************************)
IsTableRow(line) == startswith(line, <<"|", " ", Grave>>)

IsTruncationNote(line) == startswith(line, <<"_", "T", "a", "b", "l", "e", " ", "t", "r", "u", "n", "c", "a", "t", "e", "d">>)

\* What the summary has to say for the findings fs when its lines are lines.
SummaryShows(lines, fs) ==
    LET n == Len(fs)
        shown == IF n < 40 THEN n ELSE 40
    IN  /\ SelectSeq(lines, IsTableRow) = [i \in 1..shown |-> TableRowLine(fs[i])]
        /\ SelectSeq(lines, IsTruncationNote) =
              IF n > 40
              THEN <<<<"_", "T", "a", "b", "l", "e", " ", "t", "r", "u", "n", "c", "a", "t", "e", "d", " ", "t", "o", " ", "f", "i", "r", "s", "t", " ", "4", "0", " ", "f", "i", "n", "d", "i", "n", "g", "s", ";", " ">> \o ToDigits(n - 40)
                     \o <<" ", "a", "d", "d", "i", "t", "i", "o", "n", "a", "l", " ", "f", "i", "n", "d", "i", "n", "g", "(", "s", ")", " ", "i", "n", "c", "l", "u", "d", "e", "d", " ", "i", "n", " ", "s", "u", "m", "m", "a", "r", "y", " ", "o", "n", "l", "y", ".", "_">>>>
              ELSE <<>>
        /\ \E i \in 1..Len(lines) : lines[i] = <<"-", " ", "F", "i", "n", "d", "i", "n", "g", "s", ":", " ">> \o ToDigits(n)
        /\ \A counted \in {<<"high", <<"|", " ", "H", "I", "G", "H", " ", "|", " ">>>>, <<"medium", <<"|", " ", "M", "E", "D", "I", "U", "M", " ", "|", " ">>>>,
                            <<"low", <<"|", " ", "L", "O", "W", " ", "|", " ">>>>} :
              \E i \in 1..Len(lines) :
                 lines[i] = counted[2]
                            \o ToDigits(Cardinality({k \in 1..n : fs[k].severity = counted[1]}))
                            \o <<" ", "|">>

\* C11: for n >= 1 findings the table of the summary has the rows of the first
\* min(n, 40) findings, in order; the truncation note is there exactly when
\* n > 40 and states n - 40; the severity breakdown counts all n findings.
C11_TableOfFirstForty ==
    (fpc = "done" /\ findings # <<>>) => SummaryShows(splitlines(review_body), findings)

\* A summary of more than 40 findings, with 40 rows and the note.
C11_Witness ==
    /\ fpc = "done"
    /\ Len(findings) = MaxFindings
    /\ Len(SelectSeq(splitlines(review_body), IsTableRow)) = 40
    /\ Len(SelectSeq(splitlines(review_body), IsTruncationNote)) = 1


(***************************************************************************)
(* Claims about the analyzers (SpecAnalyzers).                             *)
(***************************************************************************)
\* A finding is on a changed line of one of the file diffs.
OnChangedLine(f, diffs) ==
    \E i \in 1..Len(diffs) :
       /\ diffs[i].path = f.path
       /\ \E k \in 1..Len(diffs[i].changed_lines) :
             diffs[i].changed_lines[k].number = f.line

AllOnChangedLines(fs, diffs) == \A i \in 1..Len(fs) : OnChangedLine(fs[i], diffs)

\* The list without its i-th element.
Without(diffs, i) == SubSeq(diffs, 1, i - 1) \o SubSeq(diffs, i + 1, Len(diffs))

\* The analyzers return these findings for the file diffs.
SameWithout(lint, security, complexity, diffs) ==
    /\ lint = lint_findings(diffs)
    /\ security = python_security_findings(diffs)
    /\ complexity = complexity_findings(diffs)

\* C12: every finding of each of the three analyzers has the path of an input
\* FileDiff and the number of one of that FileDiff's changed lines, and a
\* FileDiff without changed lines yields no finding from any analyzer.
C12_FindingsOnChangedLines ==
    /\ AllOnChangedLines(lint_out, file_diffs)
    /\ AllOnChangedLines(security_out, file_diffs)
    /\ AllOnChangedLines(complexity_out, file_diffs)
    /\ (apc = "sort" /\ \A i \in 1..Len(file_diffs) : file_diffs[i].changed_lines = <<>>)
       => (lint_out = <<>> /\ security_out = <<>> /\ complexity_out = <<>>)
    /\ apc = "sort" =>
          \A i \in 1..Len(file_diffs) :
             file_diffs[i].changed_lines = <<>> =>
                SameWithout(lint_out, security_out, complexity_out, Without(file_diffs, i))

\* The analyzers returned findings for an input that holds a FileDiff without
\* changed lines next to one with changed lines on the same path.
C12_Witness ==
    /\ apc = "sort"
    /\ lint_out # <<>>
    /\ security_out # <<>>
    /\ \E i, j \in 1..Len(file_diffs) :
          /\ file_diffs[i].changed_lines = <<>>
          /\ file_diffs[j].changed_lines # <<>>
          /\ file_diffs[i].path = file_diffs[j].path


(***************************************************************************)
(* Claims about build_file_diffs (Spec).                                   *)
(***************************************************************************)
BlankFilename(changed_file) == strip(changed_file.filename) = <<>>

NoPatchBody(changed_file) == ~changed_file.has_patch \/ changed_file.patch = <<>>

\* The indices of the descriptors that are not blank, have a patch body and
\* whose patch parse_patch finds added lines in, ascending.
RECURSIVE KeptFrom(_, _)
KeptFrom(payload, i) ==
    IF i > Len(payload) THEN <<>>
    ELSE (IF \/ BlankFilename(payload[i])
             \/ NoPatchBody(payload[i])
             \/ parse_patch(payload[i].patch) = <<>>
          THEN <<>> ELSE <<i>>)
         \o KeptFrom(payload, i + 1)

OneFileDiffEach(diffs, payload, kept) ==
    /\ Len(diffs) = Len(kept)
    /\ \A j \in 1..Len(kept) :
          /\ diffs[j].path = strip(payload[kept[j]].filename)
          /\ diffs[j].changed_lines = parse_patch(payload[kept[j]].patch)
          /\ diffs[j].additions = payload[kept[j]].additions
          /\ diffs[j].deletions = payload[kept[j]].deletions

\* C13: every FileDiff has a path and changed lines; build_file_diffs drops the
\* descriptors with a blank filename, without a patch body, or whose patch
\* yields no added line, and returns one FileDiff for each other descriptor,
\* in the order of the payload.
C13_OneFileDiffPerUsableDescriptor ==
    /\ \A j \in 1..Len(file_diffs) :
          file_diffs[j].path # <<>> /\ file_diffs[j].changed_lines # <<>>
    /\ pc = "run_all_analyzers"
          => OneFileDiffEach(file_diffs, files_payload, KeptFrom(files_payload, 1))

\* build_file_diffs dropped the first descriptor and kept the second.
C13_Witness ==
    /\ pc = "run_all_analyzers"
    /\ Len(files_payload) = 2
    /\ Len(file_diffs) = 1
    /\ file_diffs[1].path = strip(files_payload[2].filename)
    /\ ~BlankFilename(files_payload[1])
    /\ ~NoPatchBody(files_payload[1])


(***************************************************************************)
(* C14: handle_webhook                                                     *)
(***************************************************************************)
\* C14: every failure that aborts the processing of a delivery leaves
\* handle_webhook as an HTTPException with status 400, 401, 500 or 502, and
\* as no other kind of exception.
C14_FailuresAreHTTPExceptions ==
    wpc = "responded" =>
        \/ response.kind \in {"ok", "ignored"}
        \/ /\ response.kind = "HTTPException"
           /\ response.status_code \in {400, 401, 500, 502}

(***************************************************************************)
(* C15: run_all_analyzers                                                  *)
(***************************************************************************)
Orders(n) ==
    {p \in [1..n -> 1..n] : \A i, j \in 1..n : p[i] = p[j] => i = j}

Permuted(list, p) == [i \in 1..Len(list) |-> list[p[i]]]

\* The three outputs, concatenated in the order p.
ConcatenatedIn(outputs, p) == outputs[p[1]] \o outputs[p[2]] \o outputs[p[3]]

\* C15: run_all_analyzers returns the same sequence for every permutation of
\* the FileDiffs and for every order in which the outputs of the three
\* analyzers are concatenated before sorting.
C15_OrderInsensitive ==
    apc = "done" =>
        /\ \A p \in Orders(Len(file_diffs)) :
              run_all_analyzers(Permuted(file_diffs, p)) = findings
        /\ \A p \in Orders(3) :
              sorted(ConcatenatedIn(<<lint_out, security_out, complexity_out>>, p))
                  = findings

(***************************************************************************)
(* C16: handle_webhook                                                     *)
(***************************************************************************)
\* The checks of a delivery, in the order the claim gives them.
ChecksInOrder ==
    <<"secret", "signature", "json", "event", "action", "draft", "metadata",
      "token", "files">>

CallsOf(name) == Cardinality({i \in DOMAIN api_calls : api_calls[i] = name})

\* The delivery is one that each check accepts.
Acceptable ==
    /\ env["GITHUB_WEBHOOK_SECRET"] # Unset
    /\ delivery.signature =
           [scheme |-> "sha256",
            digest |-> hexdigest(env["GITHUB_WEBHOOK_SECRET"], delivery.body)]
    /\ delivery.body.json
    /\ delivery.event = "pull_request"
    /\ delivery.body.action \in {"opened", "reopened", "synchronize", "ready_for_review"}
    /\ ~delivery.body.draft
    /\ delivery.body.login \notin {Unset, <<" ">>}
    /\ delivery.body.name # Unset
    /\ delivery.body.number # 0 \/ delivery.body.top_number # 0
    /\ delivery.body.sha # Unset
    /\ delivery.body.installation # 0

\* The delivery was rejected or ignored by one of the checks of the handler.
RejectedOrIgnored ==
    /\ wpc = "responded"
    /\ Len(passed) < 7

\* C16: for one delivery post_pull_request_review is called at most once, and
\* only after the checks held in their order (secret, signature against the
\* raw body, JSON, event, action, draft, metadata, token, files), the calls
\* before it being the one for the token and the ones for the pages of files;
\* a delivery that is rejected or ignored has made no API call.
C16_ReviewOnceAfterChecks ==
    /\ CallsOf("review") <= 1
    /\ CallsOf("review") = 1 =>
          /\ passed = ChecksInOrder
          /\ Acceptable
          /\ api_calls[1] = "token"
          /\ api_calls[Len(api_calls)] = "review"
          /\ \A i \in 2..(Len(api_calls) - 1) : api_calls[i] = "files"
          /\ Len(api_calls) >= 3
    /\ \A i \in DOMAIN passed : passed[i] = ChecksInOrder[i]
    /\ RejectedOrIgnored => api_calls = <<>>

C16_Witness ==
    /\ wpc = "responded"
    /\ response.kind = "ok"
    /\ CallsOf("review") = 1
    /\ CallsOf("files") = 2
    /\ findings # <<>>
=============================================================================
